---------------------------- MODULE Spec2Model ----------------------------
(***************************************************************************)
(* A model of the kitty graphics protocol implementation of st-graphics    *)
(* (src/graphics.c): the image store with its disk and RAM counters, the   *)
(* LRU reaper gr_check_limits, the loader, the command parser and          *)
(* dispatcher, the response writer and the list of pending image rects.    *)
(*                                                                         *)
(* The C globals are the variables of the module.  Inside one handler the  *)
(* globals are threaded through the operators as one record g; every       *)
(* operator named after a C function takes g (and the function's           *)
(* arguments) and yields the g the function leaves behind.  Pointers to    *)
(* images are image ids, pointers to placements are <<image id, placement  *)
(* id>> pairs, NULL is 0.                                                  *)
(***************************************************************************)
EXTENDS Integers, Sequences, FiniteSets, Bags, TLC

VARIABLES
    images,                  \* khash id2image: image id -> Image
    total_placement_count,   \* static unsigned total_placement_count
    images_disk_size,        \* static int64_t images_disk_size
    images_ram_size,         \* static int64_t images_ram_size
    last_image_id,           \* static uint32_t last_image_id
    current_cw, current_ch,  \* static int current_cw, current_ch
    current_upload_image_id, \* static uint32_t current_upload_image_id
    global_command_counter,  \* static uint64_t global_command_counter
    image_rects,             \* static ImageRect image_rects[MAX_IMAGE_RECTS]
    graphics_command_result, \* GraphicsCommandResult graphics_command_result
    config,                  \* the ceilings of config.h (extern unsigned graphics_max_...)
    clock,                   \* the last value read from CLOCK_MONOTONIC
    files,                   \* the cache directory: image id -> bytes of img-<id>
    grid,                    \* the host terminal's image placeholder cells
    drawn,                   \* rects handed to gr_drawimagerect in the last call
    limits,                  \* the counters at each return of gr_check_limits in the last call, with what its passes evicted
    erased,                  \* cells the deletion callback asked to erase in the last call
    last_call,               \* the entry point called last, with its arguments
    trace                    \* the frames given to gr_parse_command so far (not in Spec)

vars == <<images, total_placement_count, images_disk_size, images_ram_size,
          last_image_id, current_cw, current_ch, current_upload_image_id,
          global_command_counter, image_rects, graphics_command_result,
          config, clock, files, grid, drawn, limits, erased, last_call,
          trace>>

----------------------------------------------------------------------------
(* Program constants.                                                      *)

MAX_IMAGE_RECTS == 20

SCALE_MODE_UNSET == 0
SCALE_MODE_FILL == 1
SCALE_MODE_CONTAIN == 2
SCALE_MODE_NONE == 3
SCALE_MODE_NONE_OR_CONTAIN == 4

STATUS_UNINITIALIZED == 0
STATUS_UPLOADING == 1
STATUS_UPLOADING_ERROR == 2
STATUS_UPLOADING_SUCCESS == 3
STATUS_RAM_LOADING_ERROR == 4
STATUS_RAM_LOADING_SUCCESS == 5

NO_ERROR == 0
ERROR_OVER_SIZE_LIMIT == 1
ERROR_CANNOT_OPEN_CACHED_FILE == 2
ERROR_UNEXPECTED_SIZE == 3
ERROR_CANNOT_COPY_FILE == 4

\* 2^16: uint16_t fields (rows, cols, scaled_cw, scaled_ch) wrap modulo this.
U16_MOD == 65536

----------------------------------------------------------------------------
(* Bounds of the model.                                                    *)

\* Commands are accepted while global_command_counter is below this.
MaxCommands == 3
\* Operations that read the clock are accepted while clock is below this.
MaxClock == 4
\* Frames recorded in a scenario run.
MaxTrace == 3
\* Cells of the terminal's grid.
NumCells == 3

----------------------------------------------------------------------------
(* Generic helpers.                                                        *)

MIN(a, b) == IF a < b THEN a ELSE b

\* C integer division truncates towards zero.
CDiv(a, b) ==
    IF (a >= 0) = (b > 0) THEN a \div b
    ELSE -((-a) \div b)

\* The integers TLC computes with are the ints of C (32 bits, two's
\* complement), so an int holds every value of the model as it is; where the
\* arithmetic of C would wrap, TLC stops with an overflow instead.
\* Conversion to unsigned (32 bits): x + 2^32 for a negative x.
ToUnsigned(x) ==
    IF x >= 0 THEN x ELSE ((x + 2147483647) + 1) + 2147483647 + 1
\* Conversion to uint16_t.
ToU16(x) == x % U16_MOD
\* Conversion to char (8 bits, signed).
ToChar(x) ==
    LET u == x % 256
    IN IF u >= 128 THEN u - 256 ELSE u

EmptyMap == <<>>
MapPut(f, k, v) == (k :> v) @@ f
MapDel(f, k) == [x \in (DOMAIN f) \ {k} |-> f[x]] @@ EmptyMap

RECURSIVE SumOver(_, _)
\* The sum of f[x] over x in S.
SumOver(f, S) ==
    IF S = {} THEN 0
    ELSE LET x == CHOOSE y \in S : TRUE
         IN f[x] + SumOver(f, S \ {x})

----------------------------------------------------------------------------
(* Records.                                                                *)

\* memset(img, 0, sizeof(Image)) with a fresh placements table.
ZeroImage ==
    [image_id |-> 0, query_id |-> 0, image_number |-> 0, atime |-> 0,
     global_command_index |-> 0, disk_size |-> 0, expected_size |-> 0,
     format |-> 0, compression |-> 0, pix_width |-> 0, pix_height |-> 0,
     status |-> STATUS_UNINITIALIZED, uploading_failure |-> NO_ERROR,
     quiet |-> 0, open_file |-> FALSE, original_image |-> FALSE,
     placements |-> EmptyMap, default_placement |-> 0,
     initial_placement_id |-> 0]

\* memset(placement, 0, sizeof(ImagePlacement)).
ZeroPlacement ==
    [image |-> 0, placement_id |-> 0, atime |-> 0, protected |-> FALSE,
     virtual |-> 0, scale_mode |-> SCALE_MODE_UNSET, rows |-> 0, cols |-> 0,
     src_pix_x |-> 0, src_pix_y |-> 0, src_pix_width |-> 0,
     src_pix_height |-> 0, scaled_image |-> FALSE, scaled_cw |-> 0,
     scaled_ch |-> 0, do_not_move_cursor |-> 0]

\* An empty response buffer (response[0] = '\0').
NoResponse == [image_id |-> 0, image_number |-> 0, placement_id |-> 0,
               code |-> "", msg |-> ""]

NoPlaceholder == [rows |-> 0, columns |-> 0, image_id |-> 0,
                  placement_id |-> 0, do_not_move_cursor |-> 0]

\* memset(&graphics_command_result, 0, sizeof(GraphicsCommandResult)).
ZeroResult ==
    [redraw |-> FALSE, response |-> NoResponse, error |-> FALSE,
     create_placeholder |-> FALSE, placeholder |-> NoPlaceholder]

\* memset(rect, 0, sizeof(ImageRect)).
ZeroRect ==
    [image_id |-> 0, placement_id |-> 0, x_pix |-> 0, y_pix |-> 0,
     start_col |-> 0, end_col |-> 0, start_row |-> 0, end_row |-> 0,
     cw |-> 0, ch |-> 0, reverse |-> 0]

----------------------------------------------------------------------------
(* The functions of the program call one another through Call, defined     *)
(* after the last of them.                                                 *)

RECURSIVE Call(_, _)

----------------------------------------------------------------------------
(* Basic image management.                                                 *)

\* The image id if the image exists, 0 (NULL) otherwise.
gr_find_image(g, image_id) ==
    IF image_id \in DOMAIN g.images THEN image_id ELSE 0

\* The ids of the images numbered image_number.
ImagesWithNumber(g, image_number) ==
    {i \in DOMAIN g.images : g.images[i].image_number = image_number}

\* The newest image with the number, 0 if there is none.
gr_find_image_by_number(g, image_number) ==
    IF image_number = 0 \/ ImagesWithNumber(g, image_number) = {} THEN 0
    ELSE CHOOSE i \in ImagesWithNumber(g, image_number) :
            \A j \in ImagesWithNumber(g, image_number) :
                g.images[j].global_command_index
                    <= g.images[i].global_command_index

\* The khash iteration order of a table is the order of its buckets: the
\* model iterates in increasing key order.
RECURSIVE KeysInOrder(_)
KeysInOrder(S) ==
    IF S = {} THEN <<>>
    ELSE LET m == CHOOSE x \in S : \A y \in S : x <= y
         IN <<m>> \o KeysInOrder(S \ {m})

\* The placement selected by placement_id (0: the default placement, set to
\* the first placement if unset or stale).  Yields the store (the default
\* may be rewritten) and the placement id found (0: none).
gr_find_placement(g, img, placement_id) ==
    IF img = 0 THEN [g |-> g, pid |-> 0]
    ELSE IF placement_id = 0 THEN
        LET im == g.images[img]
        IN IF im.default_placement /= 0
              /\ im.default_placement \in DOMAIN im.placements
           THEN [g |-> g, pid |-> im.default_placement]
           ELSE IF DOMAIN im.placements = {} THEN [g |-> g, pid |-> 0]
           ELSE LET first == KeysInOrder(DOMAIN im.placements)[1]
                IN [g |-> [g EXCEPT !.images[img].default_placement = first],
                    pid |-> first]
    ELSE IF placement_id \in DOMAIN g.images[img].placements
         THEN [g |-> g, pid |-> placement_id]
         ELSE [g |-> g, pid |-> 0]

\* (unsigned)img->pix_width * img->pix_height * 4
gr_image_ram_size(im) ==
    ToUnsigned(ToUnsigned(im.pix_width) * ToUnsigned(im.pix_height) * 4)

\* (unsigned)placement->rows * placement->cols * scaled_ch * scaled_cw * 4
gr_placement_ram_size(pl) ==
    ToUnsigned(pl.rows * pl.cols * pl.scaled_ch * pl.scaled_cw * 4)

\* gr_unload_image that leaves images_ram_size as it is.
gr_unload_image_no_accounting(g, img) ==
    IF ~g.images[img].original_image THEN g
    ELSE [g EXCEPT !.images[img].original_image = FALSE]

gr_unload_image(g, img) ==
    IF ~g.images[img].original_image THEN g
    ELSE [g EXCEPT !.images_ram_size = @ - gr_image_ram_size(g.images[img]),
                   !.images[img].original_image = FALSE]

gr_unload_placement(g, img, pid) ==
    IF ~g.images[img].placements[pid].scaled_image THEN g
    ELSE [g EXCEPT
            !.images_ram_size =
                @ - gr_placement_ram_size(g.images[img].placements[pid]),
            !.images[img].placements[pid].scaled_image = FALSE,
            !.images[img].placements[pid].scaled_ch = 0,
            !.images[img].placements[pid].scaled_cw = 0]

\* gr_delete_imagefile that leaves images_disk_size as it is.
gr_delete_imagefile_no_accounting(g, img) ==
    LET g1 == [g EXCEPT !.images[img].open_file = FALSE]
    IN IF g.images[img].disk_size = 0 THEN g1
       ELSE [g1 EXCEPT !.files = MapDel(@, img),
                       !.images[img].disk_size = 0]

gr_delete_imagefile(g, img) ==
    LET g1 == [g EXCEPT !.images[img].open_file = FALSE]
    IN IF g.images[img].disk_size = 0 THEN g1
       ELSE [g1 EXCEPT !.files = MapDel(@, img),
                       !.images_disk_size = @ - g.images[img].disk_size,
                       !.images[img].disk_size = 0]

\* Unloads the placement and frees it; the table entry is left to the caller.
gr_delete_placement_keep_id(g, img, pid) ==
    IF pid = 0 THEN g
    ELSE [gr_unload_placement(g, img, pid) EXCEPT
            !.total_placement_count = ToUnsigned(@ - 1)]

RECURSIVE DeletePlacementsKeepId(_, _, _)
DeletePlacementsKeepId(g, img, pids) ==
    IF pids = <<>> THEN g
    ELSE DeletePlacementsKeepId(
            gr_delete_placement_keep_id(g, img, Head(pids)), img, Tail(pids))

gr_delete_all_placements(g, img) ==
    [DeletePlacementsKeepId(g, img,
        KeysInOrder(DOMAIN g.images[img].placements))
     EXCEPT !.images[img].placements = EmptyMap]

\* Everything of gr_delete_image_keep_id but free(img): the entry is dropped
\* or overwritten by the caller.
gr_delete_image_keep_id(g, img) ==
    IF img = 0 THEN g
    ELSE gr_delete_all_placements(
            gr_delete_imagefile(gr_unload_image(g, img), img), img)

gr_delete_image(g, img) ==
    IF img = 0 THEN g
    ELSE [gr_delete_image_keep_id(g, img) EXCEPT !.images = MapDel(@, img)]

gr_delete_placement(g, img, pid) ==
    IF pid = 0 THEN g
    ELSE [gr_delete_placement_keep_id(g, img, pid) EXCEPT
            !.images[img].placements = MapDel(@, pid)]


----------------------------------------------------------------------------
(* Eviction.                                                               *)

\* gr_cmp_timespec on the model's clock values.
gr_cmp_timespec(t1, t2) == IF t1 < t2 THEN -1 ELSE IF t1 > t2 THEN 1 ELSE 0

RECURSIVE SortImagesByAtime_descending(_, _)
\* A sort that puts the image accessed last first.
SortImagesByAtime_descending(g, S) ==
    IF S = {} THEN <<>>
    ELSE LET m == CHOOSE x \in S : \A y \in S :
                    gr_cmp_timespec(g.images[x].atime, g.images[y].atime) >= 0
         IN <<m>> \o SortImagesByAtime_descending(g, S \ {m})

RECURSIVE SortImagesByAtime(_, _)
\* qsort with gr_cmp_images_by_atime: ascending atime.
SortImagesByAtime(g, S) ==
    IF S = {} THEN <<>>
    ELSE LET m == CHOOSE x \in S : \A y \in S :
                    gr_cmp_timespec(g.images[x].atime, g.images[y].atime) <= 0
         IN <<m>> \o SortImagesByAtime(g, S \ {m})

\* The array of all images sorted by atime (<<>>: NULL, no images).
gr_get_images_sorted_by_atime(g) == SortImagesByAtime(g, DOMAIN g.images)

\* All placements as <<image id, placement id>> pairs.
AllPlacements(g) ==
    UNION {{<<i, p>> : p \in DOMAIN g.images[i].placements} :
                i \in DOMAIN g.images}

PlacementAt(g, ip) == g.images[ip[1]].placements[ip[2]]

RECURSIVE SortPlacementsByAtime(_, _)
\* qsort with gr_cmp_placements_by_atime: ascending atime.
SortPlacementsByAtime(g, S) ==
    IF S = {} THEN <<>>
    ELSE LET m == CHOOSE x \in S : \A y \in S :
                    gr_cmp_timespec(PlacementAt(g, x).atime,
                                    PlacementAt(g, y).atime) <= 0
         IN <<m>> \o SortPlacementsByAtime(g, S \ {m})

\* The array of all placements sorted by atime.  A wrong
\* total_placement_count is set right first.
gr_get_placements_sorted_by_atime(g) ==
    LET n == Cardinality(AllPlacements(g))
        g1 == IF g.total_placement_count /= 0 /\ n /= g.total_placement_count
              THEN [g EXCEPT !.total_placement_count = n] ELSE g
    IN [g |-> g1,
        arr |-> IF g1.total_placement_count = 0 THEN <<>>
                ELSE SortPlacementsByAtime(g1, AllPlacements(g1))]

\* limit + (unsigned)(limit * graphics_excess_tolerance_ratio); the ratio is
\* kept in percent.
apply_tolerance(g, limit) ==
    ToUnsigned(limit + ToUnsigned((limit * g.config.excess_tolerance_pct) \div 100))

RECURSIVE DeleteOldestImages(_, _, _, _)
\* for (i = 0; i < to_delete; i++) gr_delete_image(images_sorted[images_begin++])
DeleteOldestImages(g, images_sorted, images_begin, to_delete) ==
    IF to_delete <= 0 THEN [g |-> g, begin |-> images_begin]
    ELSE DeleteOldestImages(
            Call("gr_delete_image", <<g, images_sorted[images_begin + 1]>>),
            images_sorted, images_begin + 1, to_delete - 1)

RECURSIVE DeleteOldestPlacements(_, _, _, _)
\* The loop of the second pass: stops at the first protected placement.
DeleteOldestPlacements(g, placements_sorted, placements_begin, to_delete) ==
    IF to_delete <= 0 THEN [g |-> g, begin |-> placements_begin]
    ELSE LET ip == placements_sorted[placements_begin + 1]
         IN IF PlacementAt(g, ip).protected
            THEN [g |-> g, begin |-> placements_begin]
            ELSE DeleteOldestPlacements(
                    Call("gr_delete_placement", <<g, ip[1], ip[2]>>),
                    placements_sorted, placements_begin + 1, to_delete - 1)

RECURSIVE DeleteOldestFiles(_, _, _, _, _)
\* while (images_disk_size > cap && i < total_images) gr_delete_imagefile(...)
DeleteOldestFiles(g, images_sorted, images_begin, i, total_images) ==
    IF g.images_disk_size > g.config.total_file_cache_size /\ i < total_images
    THEN DeleteOldestFiles(
            gr_delete_imagefile(g, images_sorted[images_begin + i + 1]),
            images_sorted, images_begin, i + 1, total_images)
    ELSE g

RECURSIVE UnloadOldestImages(_, _, _, _, _)
\* while (images_ram_size > cap && i < total_images) gr_unload_image(...)
UnloadOldestImages(g, images_sorted, images_begin, i, total_images) ==
    IF g.images_ram_size > g.config.max_total_ram_size /\ i < total_images
    THEN UnloadOldestImages(
            gr_unload_image(g, images_sorted[images_begin + i + 1]),
            images_sorted, images_begin, i + 1, total_images)
    ELSE g

RECURSIVE UnloadOldestPlacements_unprotecting(_, _, _, _)
\* A last pass that unloads the placements in order, protected or not.
UnloadOldestPlacements_unprotecting(g, placements_sorted, placements_begin, i) ==
    IF g.images_ram_size > g.config.max_total_ram_size
       /\ i < g.total_placement_count
    THEN LET ip == placements_sorted[placements_begin + i + 1]
         IN UnloadOldestPlacements_unprotecting(
                gr_unload_placement(g, ip[1], ip[2]),
                placements_sorted, placements_begin, i + 1)
    ELSE g

RECURSIVE UnloadOldestPlacements(_, _, _, _)
\* The loop of the last pass: unloads the unprotected placements in order.
UnloadOldestPlacements(g, placements_sorted, placements_begin, i) ==
    IF g.images_ram_size > g.config.max_total_ram_size
       /\ i < g.total_placement_count
    THEN LET ip == placements_sorted[placements_begin + i + 1]
         IN UnloadOldestPlacements(
                IF ~PlacementAt(g, ip).protected
                THEN gr_unload_placement(g, ip[1], ip[2]) ELSE g,
                placements_sorted, placements_begin, i + 1)
    ELSE g

\* The placements that are protected.
ProtectedPlacements(g) == {ip \in AllPlacements(g) : PlacementAt(g, ip).protected}

\* The counters of the "After cleaning" log line, with the RAM held by
\* protected placements, as gr_check_limits returns.
LimitsSnapshot(g) ==
    [ram |-> g.images_ram_size, disk |-> g.images_disk_size,
     img_count |-> Cardinality(DOMAIN g.images),
     placement_count |-> g.total_placement_count,
     protected_count |-> Cardinality(ProtectedPlacements(g)),
     protected_ram |->
        SumOver([ip \in ProtectedPlacements(g) |->
                    IF PlacementAt(g, ip).scaled_image
                    THEN gr_placement_ram_size(PlacementAt(g, ip)) ELSE 0],
                ProtectedPlacements(g))]

\* First pass: too many images.
CheckLimitsImages(g) ==
    IF Cardinality(DOMAIN g.images)
            > apply_tolerance(g, g.config.max_total_placements)
    THEN LET images_sorted == gr_get_images_sorted_by_atime(g)
             r == DeleteOldestImages(g, images_sorted, 0,
                    (Cardinality(DOMAIN g.images)
                            - g.config.max_total_placements))
         IN [g |-> r.g, images_sorted |-> images_sorted, images_begin |-> r.begin]
    ELSE [g |-> g, images_sorted |-> <<>>, images_begin |-> 0]

\* Second pass: too many placements.
CheckLimitsPlacements(g) ==
    IF g.total_placement_count
            > apply_tolerance(g, g.config.max_total_placements)
    THEN LET s == gr_get_placements_sorted_by_atime(g)
             r == DeleteOldestPlacements(s.g, s.arr, 0,
                    (s.g.total_placement_count
                            - g.config.max_total_placements))
         IN [g |-> r.g, placements_sorted |-> s.arr,
             placements_begin |-> r.begin]
    ELSE [g |-> g, placements_sorted |-> <<>>, placements_begin |-> 0]

\* Third pass: the file cache is too big.
CheckLimitsDisk(g, images_sorted, images_begin) ==
    IF g.images_disk_size > apply_tolerance(g, g.config.total_file_cache_size)
    THEN LET arr == IF images_sorted = <<>>
                    THEN gr_get_images_sorted_by_atime(g) ELSE images_sorted
         IN [g |-> DeleteOldestFiles(g, arr, images_begin, 0,
                                     Cardinality(DOMAIN g.images)),
             images_sorted |-> arr]
    ELSE [g |-> g, images_sorted |-> images_sorted]

\* A fourth pass that unloads no image.
CheckLimitsRamImages_none(g, images_sorted, images_begin) == g

\* Fourth pass: too much RAM, unload images.
CheckLimitsRamImages(g, images_sorted, images_begin) ==
    IF g.images_ram_size > apply_tolerance(g, g.config.max_total_ram_size)
    THEN LET arr == IF images_sorted = <<>>
                    THEN gr_get_images_sorted_by_atime(g) ELSE images_sorted
         IN UnloadOldestImages(g, arr, images_begin, 0,
                               Cardinality(DOMAIN g.images))
    ELSE g

\* Fifth pass: still too much RAM, unload placements.
CheckLimitsRamPlacements(g, placements_sorted, placements_begin) ==
    IF g.images_ram_size > apply_tolerance(g, g.config.max_total_ram_size)
    THEN LET s == IF placements_sorted = <<>>
                  THEN gr_get_placements_sorted_by_atime(g)
                  ELSE [g |-> g, arr |-> placements_sorted]
         IN UnloadOldestPlacements(s.g, s.arr, placements_begin, 0)
    ELSE g

\* What the five passes of one gr_check_limits call did, from the stores
\* between them: for each pass the records it could evict, each with its
\* atime and whether the pass evicted it.  The first pass deletes images, the
\* second unprotected placements, the third the files of images, the fourth
\* unloads the original buffers of images, the fifth the scaled buffers of
\* unprotected placements.
Evictions(g0, g1, g2, g3, g4, g5) ==
    <<{[id |-> i, atime |-> g0.images[i].atime,
        evicted |-> i \notin DOMAIN g1.images] : i \in DOMAIN g0.images},
      {[id |-> ip, atime |-> PlacementAt(g1, ip).atime,
        evicted |-> ip \notin AllPlacements(g2)] :
            ip \in {x \in AllPlacements(g1) : ~PlacementAt(g1, x).protected}},
      {[id |-> i, atime |-> g2.images[i].atime,
        evicted |-> g3.images[i].disk_size = 0] :
            i \in {x \in DOMAIN g2.images : g2.images[x].disk_size > 0}},
      {[id |-> i, atime |-> g3.images[i].atime,
        evicted |-> ~g4.images[i].original_image] :
            i \in {x \in DOMAIN g3.images : g3.images[x].original_image}},
      {[id |-> ip, atime |-> PlacementAt(g4, ip).atime,
        evicted |-> ~PlacementAt(g5, ip).scaled_image] :
            ip \in {x \in AllPlacements(g4) :
                        /\ ~PlacementAt(g4, x).protected
                        /\ PlacementAt(g4, x).scaled_image}}>>

\* Checks RAM and disk cache limits and deletes/unloads some images.
gr_check_limits(g) ==
    LET p1 == CheckLimitsImages(g)
        p2 == CheckLimitsPlacements(p1.g)
        p3 == CheckLimitsDisk(p2.g, p1.images_sorted, p1.images_begin)
        p4 == CheckLimitsRamImages(p3.g, p3.images_sorted, p1.images_begin)
        p5 == CheckLimitsRamPlacements(p4, p2.placements_sorted,
                                       p2.placements_begin)
    IN [p5 EXCEPT !.limits = @ \cup
            {[passes |-> Evictions(g, p1.g, p2.g, p3.g, p4, p5)]
                @@ LimitsSnapshot(p5)}]

RECURSIVE UnloadUnprotected(_, _)
UnloadUnprotected(g, ips) ==
    IF ips = <<>> THEN g
    ELSE UnloadUnprotected(
            IF PlacementAt(g, Head(ips)).protected THEN g
            ELSE gr_unload_placement(g, Head(ips)[1], Head(ips)[2]),
            Tail(ips))

RECURSIVE UnloadAllImages(_, _)
UnloadAllImages(g, ids) ==
    IF ids = <<>> THEN g
    ELSE UnloadAllImages(
            gr_unload_image(
                UnloadUnprotected(g,
                    [k \in 1..Cardinality(DOMAIN g.images[Head(ids)].placements)
                        |-> <<Head(ids),
                              KeysInOrder(DOMAIN g.images[Head(ids)].placements)[k]>>]),
                Head(ids)),
            Tail(ids))

\* Unloads all images by user request.
gr_unload_images_to_reduce_ram(g) ==
    UnloadAllImages(g, KeysInOrder(DOMAIN g.images))

----------------------------------------------------------------------------
(* Touching and creation.                                                  *)

\* clock_gettime(CLOCK_MONOTONIC, &img->atime): every reading is later than
\* the one before.
gr_touch_image(g, img) ==
    [g EXCEPT !.clock = @ + 1, !.images[img].atime = g.clock + 1]

\* gr_touch_placement without its second statement.
gr_touch_placement_alone(g, img, pid) ==
    [g EXCEPT !.clock = @ + 1,
              !.images[img].placements[pid].atime = g.clock + 1]

gr_touch_placement(g, img, pid) ==
    [g EXCEPT !.clock = @ + 1,
              !.images[img].placements[pid].atime = g.clock + 1,
              !.images[img].atime = g.clock + 1]

\* Whether rand() may yield this image id: the do-while keeps ids that need
\* the full 32 bits and are not taken.
ImageIdAccepted(g, id) ==
    /\ (id \div 16777216) % 256 /= 0
    /\ (id \div 256) % 65536 /= 0
    /\ gr_find_image(g, id) = 0

\* Whether rand() & 0xFFFFFF may yield this placement id.
PlacementIdAccepted(g, img, id) ==
    /\ id < 16777216
    /\ (id \div 256) % 65536 /= 0
    /\ id \notin DOMAIN g.images[img].placements

\* Creates the image; rnd is the value rand() gives when id is 0.  A value
\* the do-while loop rejects is not an outcome: rand_rejected marks it.
gr_new_image(g, id0, rnd) ==
    LET id == IF id0 = 0 THEN rnd ELSE id0
        g0 == IF id0 = 0 /\ ~ImageIdAccepted(g, rnd)
              THEN [g EXCEPT !.rand_rejected = TRUE] ELSE g
        g1 == gr_delete_image_keep_id(g0, gr_find_image(g0, id))
        g2 == [g1 EXCEPT !.images = MapPut(@, id,
                    [ZeroImage EXCEPT !.image_id = id])]
        g3 == gr_touch_image(g2, id)
    IN [g |-> [g3 EXCEPT !.images[id].global_command_index =
                            g.global_command_counter],
        img |-> id]

\* gr_new_placement without its last statement: default_placement is left
\* as it is.
gr_new_placement_no_default(g, img, id0, rnd) ==
    LET id == IF id0 = 0 THEN rnd ELSE id0
        g0 == IF id0 = 0 /\ ~PlacementIdAccepted(g, img, rnd)
              THEN [g EXCEPT !.rand_rejected = TRUE] ELSE g
        f == gr_find_placement(g0, img, id)
        g1 == gr_delete_placement_keep_id(f.g, img, f.pid)
        g2 == [g1 EXCEPT
                !.total_placement_count = ToUnsigned(@ + 1),
                !.images[img].placements = MapPut(@, id,
                    [ZeroPlacement EXCEPT !.image = img, !.placement_id = id])]
    IN [g |-> gr_touch_placement(g2, img, id), pid |-> id]

\* gr_new_placement that does not delete the placement it replaces.
gr_new_placement_recounting(g, img, id0, rnd) ==
    LET id == IF id0 = 0 THEN rnd ELSE id0
        g2 == [g EXCEPT
                !.total_placement_count = ToUnsigned(@ + 1),
                !.images[img].placements = MapPut(@, id,
                    [ZeroPlacement EXCEPT !.image = img, !.placement_id = id])]
        g3 == gr_touch_placement(g2, img, id)
    IN [g |-> IF g3.images[img].default_placement = 0
              THEN [g3 EXCEPT !.images[img].default_placement = id] ELSE g3,
        pid |-> id]

\* Creates the placement; rnd is the value rand() gives when id is 0.
gr_new_placement(g, img, id0, rnd) ==
    LET id == IF id0 = 0 THEN rnd ELSE id0
        g0 == IF id0 = 0 /\ ~PlacementIdAccepted(g, img, rnd)
              THEN [g EXCEPT !.rand_rejected = TRUE] ELSE g
        f == gr_find_placement(g0, img, id)
        g1 == gr_delete_placement_keep_id(f.g, img, f.pid)
        g2 == [g1 EXCEPT
                !.total_placement_count = ToUnsigned(@ + 1),
                !.images[img].placements = MapPut(@, id,
                    [ZeroPlacement EXCEPT !.image = img, !.placement_id = id])]
        g3 == gr_touch_placement(g2, img, id)
    IN [g |-> IF g3.images[img].default_placement = 0
              THEN [g3 EXCEPT !.images[img].default_placement = id] ELSE g3,
        pid |-> id]

\* (a + b - 1) / b on int64_t.
ceil_div(a, b) == CDiv(a + b - 1, b)

\* The source rectangle of the placement truncated to the image.
TruncatedSrcRect(pl, im) ==
    LET x0 == IF pl.src_pix_x < 0 THEN 0 ELSE pl.src_pix_x
        y0 == IF pl.src_pix_y < 0 THEN 0 ELSE pl.src_pix_y
        w0 == IF pl.src_pix_width < 0 THEN 0 ELSE pl.src_pix_width
        h0 == IF pl.src_pix_height < 0 THEN 0 ELSE pl.src_pix_height
        x == IF x0 > im.pix_width THEN im.pix_width ELSE x0
        y == IF y0 > im.pix_height THEN im.pix_height ELSE y0
        w == IF w0 = 0 \/ x + w0 > im.pix_width THEN im.pix_width - x ELSE w0
        h == IF h0 = 0 \/ y + h0 > im.pix_height THEN im.pix_height - y ELSE h0
    IN [pl EXCEPT !.src_pix_x = x, !.src_pix_y = y,
                  !.src_pix_width = w, !.src_pix_height = h]

\* The rows and columns inferred for a placement whose source rectangle is
\* already truncated.
InferredSize(pl, cw, ch) ==
    IF pl.cols /= 0 /\ pl.rows /= 0 THEN pl
    ELSE IF pl.src_pix_width = 0 \/ pl.src_pix_height = 0 THEN pl
    ELSE IF cw = 0 \/ ch = 0 THEN pl
    ELSE IF pl.cols = 0 /\ pl.rows = 0 THEN
        [pl EXCEPT !.cols = ToU16(ceil_div(pl.src_pix_width, cw)),
                   !.rows = ToU16(ceil_div(pl.src_pix_height, ch))]
    ELSE IF pl.scale_mode = SCALE_MODE_CONTAIN THEN
        IF pl.cols = 0 THEN
            [pl EXCEPT !.cols = ToU16(ceil_div(
                (pl.src_pix_width * pl.rows * ch),
                (pl.src_pix_height * cw)))]
        ELSE
            [pl EXCEPT !.rows = ToU16(ceil_div(
                (pl.src_pix_height * pl.cols * cw),
                (pl.src_pix_width * ch)))]
    ELSE
        [pl EXCEPT
            !.cols = IF pl.cols = 0
                     THEN ToU16(ceil_div(pl.src_pix_width, cw)) ELSE pl.cols,
            !.rows = IF pl.rows = 0
                     THEN ToU16(ceil_div(pl.src_pix_height, ch)) ELSE pl.rows]

\* Computes the best number of rows and columns for a placement if it's not
\* specified, and also adjusts the source rectangle size.
gr_infer_placement_size_maybe(g, img, pid) ==
    [g EXCEPT !.images[img].placements[pid] =
        InferredSize(TruncatedSrcRect(@, g.images[img]),
                     g.current_cw, g.current_ch)]


----------------------------------------------------------------------------
(* Image loading.  The decoders are external libraries: imlib2 accepts a   *)
(* file that starts with its magic byte and carries its width and height   *)
(* in the next two bytes; zlib accepts a stream that starts with its       *)
(* header byte.                                                            *)

IMLIB_MAGIC == 137
ZLIB_MAGIC == 120
\* imlib2 refuses dimensions outside 1..32767.
IMLIB_MAX_DIM == 32767

\* imlib_load_image(filename)
imlib_load_image(content) ==
    IF Len(content) >= 3 /\ content[1] = IMLIB_MAGIC
       /\ content[2] > 0 /\ content[3] > 0
    THEN [ok |-> TRUE, width |-> content[2], height |-> content[3]]
    ELSE [ok |-> FALSE, width |-> 0, height |-> 0]

\* imlib_create_image(w, h) /= NULL
imlib_create_image(w, h) ==
    w > 0 /\ h > 0 /\ w <= IMLIB_MAX_DIM /\ h <= IMLIB_MAX_DIM

\* gr_load_raw_pixel_data_compressed(...) = 0: no Z_DATA_ERROR.
gr_load_raw_pixel_data_compressed(content) ==
    content = <<>> \/ content[1] = ZLIB_MAGIC

\* The product of two ints, exact and as 32 bits hold it.  Factors whose
\* product cannot pass 31 bits are multiplied directly; otherwise the
\* magnitude is
\* multiplied in limbs of 12 bits d[1] (lowest) to d[6]; `zero', `negative'
\* and `fits' are the exact product's being 0, below 0 and within 31 bits,
\* and `low' its lowest 31 bits; `bit' and `wrapped' are bit 31 and the
\* lowest 31 bits of the two's complement product.
MulInt(w, h) ==
    LET Abs(x) == IF x < 0 THEN -x ELSE x
        Limbs(x) == <<x % 4096, (x \div 4096) % 4096, x \div 16777216>>
        Products(a, b) ==
            <<a[1] * b[1], a[1] * b[2] + a[2] * b[1],
              a[1] * b[3] + a[2] * b[2] + a[3] * b[1],
              a[2] * b[3] + a[3] * b[2], a[3] * b[3], 0>>
        Carry(p, k) == [p EXCEPT ![k] = p[k] % 4096,
                                 ![k + 1] = p[k + 1] + p[k] \div 4096]
        Digits(p) == Carry(Carry(Carry(Carry(Carry(p, 1), 2), 3), 4), 5)
        Pack(zero, negative, fits, low, bit) ==
            [zero |-> zero, negative |-> negative, fits |-> fits,
             low |-> low,
             bit |-> IF negative /\ low /= 0 THEN 1 - bit ELSE bit,
             wrapped |-> IF negative /\ low /= 0
                         THEN (2147483647 - low) + 1 ELSE low]
        Result(d, differ) ==
            Pack(\A k \in 1..6 : d[k] = 0,
                 differ /\ \E k \in 1..6 : d[k] /= 0,
                 d[3] < 128 /\ d[4] = 0 /\ d[5] = 0 /\ d[6] = 0,
                 d[1] + d[2] * 4096 + (d[3] % 128) * 16777216,
                 (d[3] \div 128) % 2)
    IN IF Abs(w) <= 46340 /\ Abs(h) <= 46340
       THEN Pack(w * h = 0, w * h < 0, TRUE, Abs(w * h), 0)
       ELSE Result(Digits(Products(Limbs(Abs(w)), Limbs(Abs(h)))),
                   (w < 0) /= (h < 0))

\* total_pixels * 4 > graphics_max_single_image_ram_size, where size_t
\* total_pixels is the int product widened to 64 bits: a negative product
\* becomes a size that exceeds every ceiling.  When the product overflows
\* int the behaviour is undefined: the build either keeps the low 32 bits
\* (env.overflow = "wrap") or multiplies in 64 bits ("wide").
PixelsOverBudget(g, im) ==
    LET Over(p, ceiling) ==
            IF p.fits \/ g.env.overflow = "wide"
            THEN p.negative \/ ~p.fits \/ p.low > ceiling
            ELSE p.bit = 1 \/ p.wrapped > ceiling
    IN Over(MulInt(im.pix_width, im.pix_height),
            g.config.max_single_image_ram_size \div 4)

\* Whether gr_load_raw_pixel_data returns an image.
gr_load_raw_pixel_data(g, img) ==
    LET im == g.images[img]
    IN /\ ~PixelsOverBudget(g, im)
       /\ img \in DOMAIN g.files
       /\ imlib_create_image(im.pix_width, im.pix_height)
       /\ (im.compression = 0
            \/ gr_load_raw_pixel_data_compressed(g.files[img]))

\* gr_load_image without the test of the upload status.
gr_load_image_any_status(g, img) ==
    LET im == g.images[img]
    IN IF im.original_image THEN g
       ELSE IF im.disk_size = 0
            THEN [g EXCEPT !.images[img].status = STATUS_RAM_LOADING_ERROR]
       ELSE
        LET dec == IF (im.format = 100 \/ im.format = 0)
                      /\ img \in DOMAIN g.files
                   THEN imlib_load_image(g.files[img])
                   ELSE [ok |-> FALSE, width |-> 0, height |-> 0]
            g1 == IF dec.ok
                  THEN [g EXCEPT !.images[img].original_image = TRUE,
                                 !.images[img].pix_width = dec.width,
                                 !.images[img].pix_height = dec.height]
                  ELSE g
            g2 == IF im.format = 32 \/ im.format = 24
                     \/ (~dec.ok /\ im.format = 0)
                  THEN [g1 EXCEPT !.images[img].original_image =
                                    gr_load_raw_pixel_data(g1, img)]
                  ELSE g1
        IN IF ~g2.images[img].original_image
           THEN [g2 EXCEPT !.images[img].status = STATUS_RAM_LOADING_ERROR]
           ELSE [g2 EXCEPT
                    !.images_ram_size = @ + gr_image_ram_size(g2.images[img]),
                    !.images[img].status = STATUS_RAM_LOADING_SUCCESS]

\* Loads the original image into RAM.
gr_load_image(g, img) ==
    LET im == g.images[img]
    IN IF im.original_image THEN g
       ELSE IF im.status < STATUS_UPLOADING_SUCCESS THEN g
       ELSE IF im.disk_size = 0
            THEN [g EXCEPT !.images[img].status = STATUS_RAM_LOADING_ERROR]
       ELSE
        LET dec == IF (im.format = 100 \/ im.format = 0)
                      /\ img \in DOMAIN g.files
                   THEN imlib_load_image(g.files[img])
                   ELSE [ok |-> FALSE, width |-> 0, height |-> 0]
            g1 == IF dec.ok
                  THEN [g EXCEPT !.images[img].original_image = TRUE,
                                 !.images[img].pix_width = dec.width,
                                 !.images[img].pix_height = dec.height]
                  ELSE g
            g2 == IF im.format = 32 \/ im.format = 24
                     \/ (~dec.ok /\ im.format = 0)
                  THEN [g1 EXCEPT !.images[img].original_image =
                                    gr_load_raw_pixel_data(g1, img)]
                  ELSE g1
        IN IF ~g2.images[img].original_image
           THEN [g2 EXCEPT !.images[img].status = STATUS_RAM_LOADING_ERROR]
           ELSE [g2 EXCEPT
                    !.images_ram_size = @ + gr_image_ram_size(g2.images[img]),
                    !.images[img].status = STATUS_RAM_LOADING_SUCCESS]

\* The end of gr_load_placement: the scaled buffer exists; it is accounted,
\* and kept through gr_check_limits by the protected flag.
MarkPlacementLoaded(g, img, pid, cw, ch) ==
    LET g1 == [g EXCEPT !.images[img].placements[pid].scaled_image = TRUE,
                        !.images[img].placements[pid].scaled_ch = ToU16(ch),
                        !.images[img].placements[pid].scaled_cw = ToU16(cw)]
        g2 == [g1 EXCEPT
                !.images_ram_size =
                    @ + gr_placement_ram_size(g1.images[img].placements[pid]),
                !.images[img].placements[pid].protected = TRUE]
        g3 == Call("gr_check_limits", <<g2>>)
    IN \* placement->protected = 0 (the placement outlives the check unless
       \* its image was reaped).
       IF img \in DOMAIN g3.images /\ pid \in DOMAIN g3.images[img].placements
       THEN [g3 EXCEPT !.images[img].placements[pid].protected = FALSE]
       ELSE g3

\* Loads the image placement into RAM, scaled to the box of the placement at
\* the given cell size.
gr_load_placement(g, img, pid, cw, ch) ==
    LET g1 == gr_touch_placement(g, img, pid)
        pl1 == g1.images[img].placements[pid]
    IN IF pl1.scaled_image /\ pl1.scaled_ch = ch /\ pl1.scaled_cw = cw THEN g1
       ELSE
        LET g2 == Call("gr_load_image", <<gr_unload_placement(g1, img, pid), img>>)
        IN IF ~g2.images[img].original_image THEN g2
           ELSE
            LET g3 == Call("gr_infer_placement_size_maybe", <<g2, img, pid>>)
                pl3 == g3.images[img].placements[pid]
                scaled_w == (pl3.cols * cw)
                scaled_h == (pl3.rows * ch)
            IN IF ToUnsigned((scaled_w * scaled_h * 4))
                    > g3.config.max_single_image_ram_size
               THEN g3
               ELSE IF ~imlib_create_image(scaled_w, scaled_h) THEN g3
               ELSE MarkPlacementLoaded(g3, img, pid, cw, ch)

----------------------------------------------------------------------------
(* Characters and base64.  A C string is the sequence of its characters,  *)
(* each a one-character string; the terminating NUL is not part of it.     *)

\* The printable characters in the order of their codes, from 32 (space);
\* the back quote (96), which cannot be written in a string, is spelled out.
Printable ==
    <<" ", "!", "\"", "#", "$", "%", "&", "'", "(", ")", "*", "+", ",", "-",
      ".", "/", "0", "1", "2", "3", "4", "5", "6", "7", "8", "9", ":", ";",
      "<", "=", ">", "?", "@", "A", "B", "C", "D", "E", "F", "G", "H", "I",
      "J", "K", "L", "M", "N", "O", "P", "Q", "R", "S", "T", "U", "V", "W",
      "X", "Y", "Z", "[", "\\", "]", "^", "_", "BACKQUOTE", "a", "b", "c", "d", "e",
      "f", "g", "h", "i", "j", "k", "l", "m", "n", "o", "p", "q", "r", "s",
      "t", "u", "v", "w", "x", "y", "z", "{", "|", "}", "~">>

\* isprint(c)
isprint(c) == \E i \in 1..Len(Printable) : Printable[i] = c

\* The code of each printable character.
CharCode ==
    [c \in {Printable[i] : i \in 1..Len(Printable)} |->
        31 + CHOOSE i \in 1..Len(Printable) : Printable[i] = c]

\* isupper(c), tolower(c)
isupper(c) == isprint(c) /\ CharCode[c] >= 65 /\ CharCode[c] <= 90
tolower(c) == IF isupper(c) THEN Printable[CharCode[c] + 32 - 31] ELSE c

\* gr_base64_digits[(unsigned char)c]
gr_base64_digits(c) ==
    IF ~isprint(c) THEN 0
    ELSE LET o == CharCode[c]
         IN IF o >= 65 /\ o <= 90 THEN o - 65
            ELSE IF o >= 97 /\ o <= 122 THEN o - 71
            ELSE IF o >= 48 /\ o <= 57 THEN o + 4
            ELSE IF o = 43 THEN 62
            ELSE IF o = 47 THEN 63
            ELSE IF o = 61 THEN -1
            ELSE 0

RECURSIVE SkipNonPrintable(_)
\* while (**src && !isprint(**src)) (*src)++;
SkipNonPrintable(src) ==
    IF src /= <<>> /\ ~isprint(Head(src)) THEN SkipNonPrintable(Tail(src))
    ELSE src

\* The next character and the rest of the string; '=' when the string ends.
gr_base64_getc(src) ==
    LET t == SkipNonPrintable(src)
    IN IF t = <<>> THEN [c |-> "=", rest |-> <<>>]
       ELSE [c |-> Head(t), rest |-> Tail(t)]

RECURSIVE gr_base64dec(_)
\* The decoded bytes.
gr_base64dec(src) ==
    IF src = <<>> THEN <<>>
    ELSE LET ga == gr_base64_getc(src)
             gb == gr_base64_getc(ga.rest)
             gc == gr_base64_getc(gb.rest)
             gd == gr_base64_getc(gc.rest)
             a == gr_base64_digits(ga.c)
             b == gr_base64_digits(gb.c)
             c == gr_base64_digits(gc.c)
             d == gr_base64_digits(gd.c)
         IN IF a = -1 \/ b = -1 THEN <<>>
            ELSE <<(a * 4 + (b \div 16)) % 256>> \o
                 (IF c = -1 THEN <<>>
                  ELSE <<((b % 16) * 16 + (c \div 4)) % 256>> \o
                       (IF d = -1 THEN <<>>
                        ELSE <<((c % 4) * 64 + d) % 256>> \o
                             gr_base64dec(gd.rest)))

RECURSIVE CString(_)
\* The C string held in a buffer of bytes: the bytes before the first NUL.
CString(bytes) ==
    IF bytes = <<>> \/ Head(bytes) = 0 THEN <<>>
    ELSE <<Head(bytes)>> \o CString(Tail(bytes))

----------------------------------------------------------------------------
(* Response writer.  A response frame ESC _ G i=..,I=..,p=.. ; MSG ESC \   *)
(* is kept as its fields; the message is split into the error code before  *)
(* the colon (or OK) and the text.                                         *)

\* Creates a response to the current command in graphics_command_result.
gr_createresponse(g, image_id, image_number, placement_id, code, msg) ==
    IF image_id = 0 /\ image_number = 0 /\ placement_id = 0 THEN g
    ELSE [g EXCEPT !.result.response =
            [image_id |-> image_id, image_number |-> image_number,
             placement_id |-> placement_id, code |-> code, msg |-> msg]]

gr_reportsuccess_cmd(g) ==
    IF g.cmd.quiet < 1 /\ g.cmd.more = 0
    THEN gr_createresponse(g, g.cmd.image_id, g.cmd.image_number,
                           g.cmd.placement_id, "OK", "")
    ELSE g

\* The id used in responses for the image.
ResponseId(im) == IF im.query_id /= 0 THEN im.query_id ELSE im.image_id

\* gr_reportsuccess_img without the test of the quiet level of the image.
gr_reportsuccess_img_loud(g, img) ==
    LET im == g.images[img]
    IN gr_createresponse(g, ResponseId(im), im.image_number,
                         im.initial_placement_id, "OK", "")

gr_reportsuccess_img(g, img) ==
    LET im == g.images[img]
    IN IF im.quiet < 1
       THEN gr_createresponse(g, ResponseId(im), im.image_number,
                              im.initial_placement_id, "OK", "")
       ELSE g

gr_reporterror_cmd(g, code, msg) ==
    LET g1 == [g EXCEPT !.result.error = TRUE]
    IN IF g.cmd.quiet < 2
       THEN gr_createresponse(g1, g.cmd.image_id, g.cmd.image_number,
                              g.cmd.placement_id, code, msg)
       ELSE g1

gr_reporterror_img(g, img, code, msg) ==
    LET g1 == [g EXCEPT !.result.error = TRUE]
    IN IF img = 0 THEN gr_createresponse(g1, 0, 0, 0, code, msg)
       ELSE LET im == g.images[img]
            IN IF im.quiet < 2
               THEN gr_createresponse(g1, ResponseId(im), im.image_number,
                                      im.initial_placement_id, code, msg)
               ELSE g1

\* Loads an image and creates a success/failure response.  Yields the store
\* and the image, 0 (NULL) if it was a query and the image was deleted.
gr_loadimage_and_report(g, img) ==
    LET g1 == Call("gr_load_image", <<g, img>>)
        g2 == IF ~g1.images[img].original_image
              THEN Call("gr_reporterror_img", <<g1, img, "EBADF", "could not load image">>)
              ELSE Call("gr_reportsuccess_img", <<g1, img>>)
    IN IF g2.images[img].query_id /= 0
       THEN [g |-> Call("gr_delete_image", <<g2, img>>), img |-> 0]
       ELSE [g |-> g2, img |-> img]

\* gr_reportuploaderror that reports nothing.
gr_reportuploaderror_silent(g, img) == g

\* Creates an appropriate uploading failure response to the current command.
gr_reportuploaderror(g, img) ==
    LET f == g.images[img].uploading_failure
    IN IF f = ERROR_CANNOT_OPEN_CACHED_FILE
       THEN Call("gr_reporterror_img", <<g, img, "EIO",
                               "could not create a file for image">>)
       ELSE IF f = ERROR_OVER_SIZE_LIMIT
       THEN Call("gr_reporterror_img", <<g, img, "EFBIG",
            "the size of the uploaded image exceeded the image size limit">>)
       ELSE IF f = ERROR_UNEXPECTED_SIZE
       THEN Call("gr_reporterror_img", <<g, img, "EINVAL",
            "the size of the uploaded image doesn't match the expected size">>)
       ELSE g

----------------------------------------------------------------------------
(* Drawing.                                                                *)

gr_find_image_and_placement(g, image_id, placement_id) ==
    gr_find_placement(g, gr_find_image(g, image_id), placement_id)

\* gr_drawimagerect that draws nothing.
gr_drawimagerect_nothing(g, rect) == g

\* Draws the given part of an image: the rectangle is recorded together with
\* whether the scaled image (and not just the bounding box) was rendered.
gr_drawimagerect(g, rect) ==
    LET f == gr_find_image_and_placement(g, rect.image_id, rect.placement_id)
    IN IF f.pid = 0
       THEN [f.g EXCEPT !.drawn = Append(@, [rect |-> rect, image |-> FALSE])]
       ELSE LET g1 == Call("gr_load_placement", <<f.g, rect.image_id, f.pid,
                                        rect.cw, rect.ch>>)
                shown == /\ rect.image_id \in DOMAIN g1.images
                         /\ f.pid \in DOMAIN g1.images[rect.image_id].placements
                         /\ g1.images[rect.image_id].placements[f.pid]
                                .scaled_image
            IN [g1 EXCEPT !.drawn = Append(@, [rect |-> rect, image |-> shown])]

\* Removes the given image rectangle.
gr_freerect(g, i) == [g EXCEPT !.image_rects[i] = ZeroRect]

\* The bottom coordinate of the rect.
gr_getrectbottom(rect) ==
    rect.y_pix + (rect.end_row - rect.start_row) * rect.ch

gr_start_drawing(g, cw, ch) == [g EXCEPT !.current_cw = cw, !.current_ch = ch]

RECURSIVE DrawAllRects(_, _)
\* The loop of gr_finish_drawing from slot i on.
DrawAllRects(g, i) ==
    IF i > MAX_IMAGE_RECTS THEN g
    ELSE IF g.image_rects[i].image_id = 0 THEN DrawAllRects(g, i + 1)
    ELSE DrawAllRects(gr_freerect(Call("gr_drawimagerect", <<g, g.image_rects[i]>>), i),
                      i + 1)

\* Draws all the rectangles left to draw.
gr_finish_drawing(g) == Call("gr_check_limits", <<DrawAllRects(g, 1)>>)

\* MergesWith that never finds a rect to merge with.
MergesWith_never(rect, new_rect) == FALSE

\* Whether the new stripe continues the stored rect downwards.
MergesWith(rect, new_rect) ==
    /\ rect.image_id /= 0
    /\ rect.image_id = new_rect.image_id
    /\ rect.placement_id = new_rect.placement_id
    /\ rect.cw = new_rect.cw /\ rect.ch = new_rect.ch
    /\ rect.reverse = new_rect.reverse
    /\ rect.end_row = new_rect.start_row
    /\ gr_getrectbottom(rect) = new_rect.y_pix
    /\ rect.start_col = new_rect.start_col
    /\ rect.end_col = new_rect.end_col
    /\ rect.x_pix = new_rect.x_pix

\* SlotToRender choosing the first of the slots with the largest bottom.
SlotToRender_lowest(g) ==
    CHOOSE i \in 1..MAX_IMAGE_RECTS :
        /\ \A j \in 1..MAX_IMAGE_RECTS :
            gr_getrectbottom(g.image_rects[i])
                >= gr_getrectbottom(g.image_rects[j])
        /\ \A j \in 1..(i - 1) :
            gr_getrectbottom(g.image_rects[j])
                < gr_getrectbottom(g.image_rects[i])

\* The slot rendered to make room: the first one whose bottom no later slot
\* undercuts.
SlotToRender(g) ==
    CHOOSE i \in 1..MAX_IMAGE_RECTS :
        /\ \A j \in 1..MAX_IMAGE_RECTS :
            gr_getrectbottom(g.image_rects[i])
                <= gr_getrectbottom(g.image_rects[j])
        /\ \A j \in 1..(i - 1) :
            gr_getrectbottom(g.image_rects[j])
                > gr_getrectbottom(g.image_rects[i])

\* Adds an image rectangle to the list of rectangles to draw.
gr_append_imagerect(g, new_rect) ==
    LET g1 == [g EXCEPT !.current_cw = new_rect.cw,
                        !.current_ch = new_rect.ch]
        merge == {i \in 1..MAX_IMAGE_RECTS :
                    MergesWith(g.image_rects[i], new_rect)}
        free == {i \in 1..MAX_IMAGE_RECTS : g.image_rects[i].image_id = 0}
        Least(S) == CHOOSE i \in S : \A j \in S : i <= j
    IN IF new_rect.image_id = 0
          \/ new_rect.end_col - new_rect.start_col <= 0
          \/ new_rect.end_row - new_rect.start_row <= 0
       THEN g1
       ELSE IF merge /= {}
       THEN [g1 EXCEPT !.image_rects[Least(merge)].end_row = new_rect.end_row]
       ELSE IF free /= {}
       THEN [g1 EXCEPT !.image_rects[Least(free)] = new_rect]
       ELSE LET i == SlotToRender(g1)
                g2 == gr_freerect(Call("gr_drawimagerect", <<g1, g1.image_rects[i]>>), i)
            IN [g2 EXCEPT !.image_rects[i] = new_rect]

----------------------------------------------------------------------------
(* Direct uploads.                                                         *)

\* gr_display_nonvirtual_placement that displays virtual placements too.
gr_display_any_placement(g, img, pid) ==
    IF g.images[img].status < STATUS_RAM_LOADING_SUCCESS THEN g
    ELSE LET g1 == Call("gr_infer_placement_size_maybe", <<g, img, pid>>)
             pl == g1.images[img].placements[pid]
         IN [g1 EXCEPT !.result.create_placeholder = TRUE,
                       !.result.placeholder =
                            [rows |-> pl.rows, columns |-> pl.cols,
                             image_id |-> img, placement_id |-> pid,
                             do_not_move_cursor |-> pl.do_not_move_cursor]]

\* gr_display_nonvirtual_placement without the test of the image's status.
gr_display_unloaded_placement(g, img, pid) ==
    IF g.images[img].placements[pid].virtual /= 0 THEN g
    ELSE LET g1 == Call("gr_infer_placement_size_maybe", <<g, img, pid>>)
             pl == g1.images[img].placements[pid]
         IN [g1 EXCEPT !.result.create_placeholder = TRUE,
                       !.result.placeholder =
                            [rows |-> pl.rows, columns |-> pl.cols,
                             image_id |-> img, placement_id |-> pid,
                             do_not_move_cursor |-> pl.do_not_move_cursor]]

\* Records in graphics_command_result the placeholder the terminal has to
\* create for a non-virtual placement.
gr_display_nonvirtual_placement(g, img, pid) ==
    IF g.images[img].placements[pid].virtual /= 0 THEN g
    ELSE IF g.images[img].status < STATUS_RAM_LOADING_SUCCESS THEN g
    ELSE LET g1 == Call("gr_infer_placement_size_maybe", <<g, img, pid>>)
             pl == g1.images[img].placements[pid]
         IN [g1 EXCEPT !.result.create_placeholder = TRUE,
                       !.result.placeholder =
                            [rows |-> pl.rows, columns |-> pl.cols,
                             image_id |-> img, placement_id |-> pid,
                             do_not_move_cursor |-> pl.do_not_move_cursor]]

RECURSIVE DisplayPlacements(_, _, _)
\* kh_foreach_value(img->placements, ...) of gr_append_data.
DisplayPlacements(g, img, pids) ==
    IF pids = <<>> THEN g
    ELSE DisplayPlacements(Call("gr_display_nonvirtual_placement", <<g, img, Head(pids)>>),
                           img, Tail(pids))

\* The last chunk has been written: close the file, check the size, load.
FinishUpload(g, img) ==
    LET g1 == [g EXCEPT !.current_upload_image_id = 0,
                        !.images[img].open_file = FALSE,
                        !.images[img].status = STATUS_UPLOADING_SUCCESS]
        im == g1.images[img]
    IN IF im.expected_size /= 0 /\ im.expected_size /= im.disk_size
       THEN Call("gr_reportuploaderror", <<
                [g1 EXCEPT !.images[img].status = STATUS_UPLOADING_ERROR,
                           !.images[img].uploading_failure =
                                ERROR_UNEXPECTED_SIZE], img>>)
       ELSE LET r == Call("gr_loadimage_and_report", <<g1, img>>)
            IN IF r.img = 0 THEN r.g
               ELSE DisplayPlacements(r.g, img,
                        KeysInOrder(DOMAIN r.g.images[img].placements))

\* A write that leaves disk_size and images_disk_size as they are.
WriteData_uncounted(g, img, data) ==
    gr_touch_image([g EXCEPT !.files = MapPut(@, img, data),
                             !.images[img].open_file = TRUE], img)

\* fopen(filename, img->disk_size ? "a" : "w") followed by fwrite.
WriteData(g, img, data) ==
    LET im == g.images[img]
        old == IF im.open_file \/ im.disk_size /= 0
               THEN (IF img \in DOMAIN g.files THEN g.files[img] ELSE <<>>)
               ELSE <<>>
        g1 == [g EXCEPT !.files = MapPut(@, img, old \o data),
                        !.images[img].open_file = TRUE,
                        !.images[img].disk_size = ToUnsigned(@ + Len(data)),
                        !.images_disk_size = @ + Len(data)]
    IN gr_touch_image(g1, img)

\* Appends data from payload to the image img (0: the image of the current
\* direct upload).
gr_append_data(g, img0, payload, more) ==
    LET img == IF img0 = 0 THEN gr_find_image(g, g.current_upload_image_id)
               ELSE img0
        g1 == IF more = 0 THEN [g EXCEPT !.current_upload_image_id = 0] ELSE g
        data == gr_base64dec(payload)
    IN IF img = 0
       THEN (IF more = 0
             THEN Call("gr_reporterror_img", <<g1, 0, "ENOENT",
                        "could not find the image to append data to">>)
             ELSE g1)
       ELSE IF g1.images[img].status /= STATUS_UPLOADING
       THEN (IF more = 0 THEN Call("gr_reportuploaderror", <<g1, img>>) ELSE g1)
       ELSE IF g1.images[img].disk_size + Len(data)
                    > g1.config.max_single_image_file_size
               \/ g1.images[img].expected_size
                    > g1.config.max_single_image_file_size
       THEN LET g2 == [gr_delete_imagefile(g1, img) EXCEPT
                        !.images[img].uploading_failure = ERROR_OVER_SIZE_LIMIT]
            IN IF more = 0 THEN Call("gr_reportuploaderror", <<g2, img>>) ELSE g2
       ELSE IF ~g1.images[img].open_file /\ ~g1.env.fopen_ok
       THEN LET g2 == [g1 EXCEPT
                        !.images[img].status = STATUS_UPLOADING_ERROR,
                        !.images[img].uploading_failure =
                            ERROR_CANNOT_OPEN_CACHED_FILE]
            IN IF more = 0 THEN Call("gr_reportuploaderror", <<g2, img>>) ELSE g2
       ELSE LET g2 == WriteData(g1, img, data)
            IN Call("gr_check_limits", <<
                IF more /= 0
                THEN [g2 EXCEPT !.current_upload_image_id = img]
                ELSE FinishUpload(g2, img)>>)

----------------------------------------------------------------------------
(* Command handling.  The command being handled is the field cmd of the    *)
(* store record; a character field holds "" for NUL.                       *)

NUL == ""

\* GraphicsCommand cmd = {.command = buf}
ZeroCommand ==
    [payload |-> <<>>, action |-> NUL, quiet |-> 0, format |-> 0,
     compression |-> 0, transmission_medium |-> NUL,
     delete_specifier |-> NUL, pix_width |-> 0, pix_height |-> 0,
     src_pix_x |-> 0, src_pix_y |-> 0, src_pix_width |-> 0,
     src_pix_height |-> 0, rows |-> 0, columns |-> 0, image_id |-> 0,
     image_number |-> 0, placement_id |-> 0, more |-> 0,
     is_data_transmission |-> FALSE,
     is_direct_transmission_continuation |-> FALSE, size |-> 0,
     virtual |-> 0, do_not_move_cursor |-> 0]

\* Finds the image either by id or by number specified in the command and
\* sets the image_id of the command if the image was found.
gr_find_image_for_command(g) ==
    IF g.cmd.image_id /= 0
    THEN [g |-> g, img |-> gr_find_image(g, g.cmd.image_id)]
    ELSE LET img == IF g.cmd.image_number = 0 /\ g.cmd.action = "p"
                    THEN gr_find_image(g, g.last_image_id)
                    ELSE gr_find_image_by_number(g, g.cmd.image_number)
         IN [g |-> IF img /= 0 THEN [g EXCEPT !.cmd.image_id = img] ELSE g,
             img |-> img]

\* Creates a new image and initializes its parameters from the command.
gr_new_image_from_command(g) ==
    LET c == g.cmd
        g1 == IF c.format /= 0 /\ c.format /= 32 /\ c.format /= 24
                 /\ c.compression /= 0
              THEN Call("gr_reporterror_cmd", <<g, "EINVAL",
                "compression is supported only for raw pixel data">>)
              ELSE g
        n == Call("gr_new_image", <<g1, IF c.action = "q" THEN 0 ELSE c.image_id,
                          g.env.rand_image>>)
        g2 == IF c.action = "q"
              THEN [n.g EXCEPT !.images[n.img].query_id = c.image_id]
              ELSE IF c.image_id = 0
              THEN [n.g EXCEPT !.cmd.image_id = n.img]
              ELSE n.g
    IN [g |-> [g2 EXCEPT
                !.images[n.img].image_number = c.image_number,
                !.images[n.img].expected_size = ToUnsigned(c.size),
                !.images[n.img].format = c.format,
                !.images[n.img].compression = ToChar(c.compression),
                !.images[n.img].pix_width = c.pix_width,
                !.images[n.img].pix_height = c.pix_height,
                !.images[n.img].quiet = ToChar(c.quiet)],
        img |-> n.img]

\* The files of the host that clients name in file transmissions, by name
\* (the bytes of the path): "/a" is an image imlib2 decodes as 2x2, "/b" is
\* ten bytes that are not an image, "/d" is a directory, "/e" is empty.
HostFiles ==
    (<<47, 97>> :> [regular |-> TRUE, content |-> <<IMLIB_MAGIC, 2, 2>>]) @@
    (<<47, 98>> :> [regular |-> TRUE,
                    content |-> <<1, 2, 3, 4, 5, 6, 7, 8, 9, 10>>]) @@
    (<<47, 100>> :> [regular |-> FALSE, content |-> <<>>]) @@
    (<<47, 101>> :> [regular |-> TRUE, content |-> <<>>])

\* stat(original_filename): the error, "" if there is none.
StatError(g, filename) ==
    IF filename \notin DOMAIN HostFiles THEN "No such file or directory"
    ELSE IF ~HostFiles[filename].regular THEN "Not a regular file"
    ELSE IF Len(HostFiles[filename].content) = 0
    THEN "The size of the file is zero"
    ELSE IF Len(HostFiles[filename].content)
                > g.config.max_single_image_file_size
    THEN "The file is too large"
    ELSE ""

\* The file has been copied to the cache: account it and load the image.
\* Yields the store and the image, 0 if it was a query.
FileCopied(g, img, filename) ==
    LET size == Len(HostFiles[filename].content)
        g1 == [g EXCEPT
                !.files = MapPut(@, img, HostFiles[filename].content),
                !.images[img].status = STATUS_UPLOADING_SUCCESS,
                !.images[img].disk_size = size,
                !.images_disk_size = @ + size]
        im == g1.images[img]
    IN IF im.expected_size /= 0 /\ im.expected_size /= im.disk_size
       THEN [g |-> Call("gr_reportuploaderror", <<
                    [g1 EXCEPT !.images[img].status = STATUS_UPLOADING_ERROR,
                               !.images[img].uploading_failure =
                                    ERROR_UNEXPECTED_SIZE], img>>),
             img |-> img]
       ELSE Call("gr_loadimage_and_report", <<g1, img>>)

\* The file media ('f' and 't') of gr_handle_transmit_command.
TransmitFile(g) ==
    LET n == Call("gr_new_image_from_command", <<g>>)
        g1 == [n.g EXCEPT !.last_image_id = n.img]
        filename == CString(gr_base64dec(g.cmd.payload))
        err == StatError(g1, filename)
        failed(gg, msg) ==
            [Call("gr_reporterror_cmd", <<gg, "EBADF", msg>>) EXCEPT
                !.images[n.img].status = STATUS_UPLOADING_ERROR,
                !.images[n.img].uploading_failure = ERROR_CANNOT_COPY_FILE]
        r == IF err /= "" THEN [g |-> failed(g1, err), img |-> n.img]
             ELSE IF ~g1.env.cp_ok
             THEN [g |-> failed(g1,
                            "could not copy the image to the cache dir"),
                   img |-> n.img]
             ELSE FileCopied(g1, n.img, filename)
    IN [g |-> Call("gr_check_limits", <<r.g>>), img |-> r.img]

\* The direct medium ('d') of gr_handle_transmit_command.
TransmitDirect(g) ==
    LET f == gr_find_image_for_command(g)
    IN IF f.img /= 0 /\ f.g.images[f.img].status = STATUS_UPLOADING
       THEN [g |-> Call("gr_append_data", <<
                    [f.g EXCEPT !.cmd.is_direct_transmission_continuation
                                    = TRUE],
                    f.img, g.cmd.payload, g.cmd.more>>),
             img |-> f.img]
       ELSE IF g.cmd.action = NUL THEN [g |-> f.g, img |-> 0]
       ELSE LET n == Call("gr_new_image_from_command", <<f.g>>)
                g1 == [n.g EXCEPT !.last_image_id = n.img,
                                  !.images[n.img].status = STATUS_UPLOADING]
            IN [g |-> Call("gr_append_data", <<g1, n.img, g.cmd.payload, g.cmd.more>>),
                img |-> n.img]

\* Handles a data transmission command.  Yields the store and the image
\* pointer the function returns.
gr_handle_transmit_command(g) ==
    LET g1 == IF g.cmd.transmission_medium = NUL
              THEN [g EXCEPT !.cmd.transmission_medium = "d"] ELSE g
        g2 == IF g1.current_upload_image_id /= 0 /\ g1.cmd.image_id = 0
                 /\ g1.cmd.image_number = 0
                 /\ g1.cmd.transmission_medium = "d"
              THEN [g1 EXCEPT !.cmd.image_id = g1.current_upload_image_id]
              ELSE g1
    IN IF g2.cmd.transmission_medium \in {"f", "t"} THEN TransmitFile(g2)
       ELSE IF g2.cmd.transmission_medium = "d" THEN TransmitDirect(g2)
       ELSE [g |-> Call("gr_reporterror_cmd", <<g2, "EINVAL",
                        "transmission medium is not supported">>),
             img |-> 0]

\* Handles the 'put' command by creating a placement.
gr_handle_put_command(g) ==
    IF g.cmd.image_id = 0 /\ g.cmd.image_number = 0
    THEN Call("gr_reporterror_cmd", <<g, "EINVAL",
            "neither image id nor image number are specified or both are zero">>)
    ELSE
     LET f == gr_find_image_for_command(g)
     IN IF f.img = 0 THEN Call("gr_reporterror_cmd", <<f.g, "ENOENT", "image not found">>)
        ELSE
         LET c == f.g.cmd
             n == Call("gr_new_placement", <<f.g, f.img, c.placement_id,
                                   g.env.rand_placement>>)
             cols == ToU16(c.columns)
             rows == ToU16(c.rows)
             virtual == ToChar(c.virtual)
             g1 == [n.g EXCEPT !.images[f.img].placements[n.pid] =
                    [@ EXCEPT
                        !.virtual = virtual,
                        !.src_pix_x = c.src_pix_x,
                        !.src_pix_y = c.src_pix_y,
                        !.src_pix_width = c.src_pix_width,
                        !.src_pix_height = c.src_pix_height,
                        !.cols = cols,
                        !.rows = rows,
                        !.do_not_move_cursor = c.do_not_move_cursor,
                        !.scale_mode =
                            IF virtual /= 0 THEN SCALE_MODE_CONTAIN
                            ELSE IF cols /= 0 \/ rows /= 0
                            THEN SCALE_MODE_FILL
                            ELSE SCALE_MODE_NONE]]
         IN Call("gr_reportsuccess_cmd", <<
                Call("gr_display_nonvirtual_placement", <<g1, f.img, n.pid>>)>>)

----------------------------------------------------------------------------
(* Deletion.  The terminal's grid is a row of cells, each either empty     *)
(* (image_id = 0) or a placeholder of an image placement, classic or       *)
(* Unicode.                                                                *)

EmptyCell == [image_id |-> 0, placement_id |-> 0, is_classic |-> FALSE]

\* DeletionData del_data = {0}
ZeroDeletionData ==
    [image_id |-> 0, placement_id |-> 0, delete_image_if_no_ref |-> FALSE]

\* A callback that asks for the erasure of every cell and deletes nothing.
gr_deletion_callback_any(g, del_data, image_id, placement_id, is_classic) ==
    [g |-> g, erase |-> TRUE]

\* The callback called for each cell to perform deletion.  Yields the store
\* and whether the cell has to be erased.
gr_deletion_callback(g, del_data, image_id, placement_id, is_classic) ==
    IF ~is_classic THEN [g |-> g, erase |-> FALSE]
    ELSE IF del_data.image_id /= 0 /\ del_data.image_id /= image_id
    THEN [g |-> g, erase |-> FALSE]
    ELSE IF del_data.placement_id /= 0
            /\ del_data.placement_id /= placement_id
    THEN [g |-> g, erase |-> FALSE]
    ELSE LET img == gr_find_image(g, image_id)
         IN IF img = 0 THEN [g |-> g, erase |-> TRUE]
            ELSE LET f == gr_find_placement(g, img, placement_id)
                     g1 == IF placement_id /= 0
                           THEN Call("gr_delete_placement", <<f.g, img, f.pid>>)
                           ELSE g
                 IN [g |-> IF del_data.delete_image_if_no_ref
                              /\ DOMAIN g1.images[img].placements = {}
                           THEN Call("gr_delete_image", <<g1, img>>)
                           ELSE g1,
                     erase |-> TRUE]

RECURSIVE ForEachCell(_, _, _)
\* The cells from index i on.
ForEachCell(g, del_data, i) ==
    IF i > Len(g.grid) THEN g
    ELSE IF g.grid[i].image_id = 0 THEN ForEachCell(g, del_data, i + 1)
    ELSE LET r == gr_deletion_callback(g, del_data, g.grid[i].image_id,
                        g.grid[i].placement_id, g.grid[i].is_classic)
         IN ForEachCell(IF r.erase
                        THEN [r.g EXCEPT !.grid[i] = EmptyCell,
                                         !.erased = @ \cup {i}]
                        ELSE r.g,
                        del_data, i + 1)

\* The terminal calls the callback for each cell that holds an image and
\* erases the cells for which it returns 1.
gr_for_each_image_cell(g, del_data) == ForEachCell(g, del_data, 1)

\* Handles the delete command.
gr_handle_delete_command(g) ==
    LET c == g.cmd
        upper == isupper(c.delete_specifier)
        d0 == tolower(c.delete_specifier)
        byNumber == gr_find_image_by_number(g, c.image_number)
        d == IF d0 = "n" THEN "i" ELSE d0
        del0 == [ZeroDeletionData EXCEPT
                    !.delete_image_if_no_ref = upper,
                    !.image_id = IF d0 = "n" THEN byNumber ELSE 0]
    IN IF d0 = "n" /\ byNumber = 0 THEN g
       ELSE IF d = NUL \/ d = "a" THEN Call("gr_for_each_image_cell", <<g, del0>>)
       ELSE IF d = "i" THEN
            LET del1 == IF del0.image_id = 0
                        THEN [del0 EXCEPT !.image_id = c.image_id] ELSE del0
                del2 == [del1 EXCEPT !.placement_id = c.placement_id]
            IN IF del1.image_id = 0 THEN g
               ELSE Call("gr_for_each_image_cell", <<
                        IF del2.placement_id = 0 /\ upper
                        THEN Call("gr_delete_image", <<g, gr_find_image(g, c.image_id)>>)
                        ELSE g,
                        del2>>)
       ELSE g

\* gr_handle_command whose action T puts whenever the transmit step yields
\* an image, a continuation chunk included.
gr_handle_command_put_always(g0) ==
    LET g == IF g0.cmd.image_id = 0 /\ g0.cmd.image_number = 0
             THEN [g0 EXCEPT !.cmd.quiet = 2] ELSE g0
        a == g.cmd.action
    IN IF a = NUL
       THEN (IF g.cmd.is_data_transmission
             THEN Call("gr_handle_transmit_command", <<g>>).g
             ELSE Call("gr_reporterror_cmd", <<g, "EINVAL", "no action specified">>))
       ELSE IF a = "t" \/ a = "q" THEN Call("gr_handle_transmit_command", <<g>>).g
       ELSE IF a = "p" THEN Call("gr_handle_put_command", <<g>>)
       ELSE IF a = "T" THEN
            LET t == Call("gr_handle_transmit_command", <<g>>)
            IN IF t.img /= 0
               THEN LET g1 == Call("gr_handle_put_command", <<t.g>>)
                    IN IF g1.cmd.placement_id /= 0
                          /\ t.img \in DOMAIN g1.images
                       THEN [g1 EXCEPT !.images[t.img].initial_placement_id =
                                            g1.cmd.placement_id]
                       ELSE g1
               ELSE t.g
       ELSE IF a = "d" THEN Call("gr_handle_delete_command", <<g>>)
       ELSE Call("gr_reporterror_cmd", <<g, "EINVAL", "unsupported action">>)

\* Handles a command.
gr_handle_command(g0) ==
    LET g == IF g0.cmd.image_id = 0 /\ g0.cmd.image_number = 0
             THEN [g0 EXCEPT !.cmd.quiet = 2] ELSE g0
        a == g.cmd.action
    IN IF a = NUL
       THEN (IF g.cmd.is_data_transmission
             THEN Call("gr_handle_transmit_command", <<g>>).g
             ELSE Call("gr_reporterror_cmd", <<g, "EINVAL", "no action specified">>))
       ELSE IF a = "t" \/ a = "q" THEN Call("gr_handle_transmit_command", <<g>>).g
       ELSE IF a = "p" THEN Call("gr_handle_put_command", <<g>>)
       ELSE IF a = "T" THEN
            LET t == Call("gr_handle_transmit_command", <<g>>)
            IN IF t.img /= 0 /\ ~t.g.cmd.is_direct_transmission_continuation
               THEN LET g1 == Call("gr_handle_put_command", <<t.g>>)
                    IN IF g1.cmd.placement_id /= 0
                          /\ t.img \in DOMAIN g1.images
                       THEN [g1 EXCEPT !.images[t.img].initial_placement_id =
                                            g1.cmd.placement_id]
                       ELSE g1
               ELSE t.g
       ELSE IF a = "d" THEN Call("gr_handle_delete_command", <<g>>)
       ELSE Call("gr_reporterror_cmd", <<g, "EINVAL", "unsupported action">>)

----------------------------------------------------------------------------
(* Parsing.                                                                *)

isdigit(c) == isprint(c) /\ CharCode[c] >= 48 /\ CharCode[c] <= 57

RECURSIVE CountBlanks(_)
\* The number of leading blanks of str.
CountBlanks(str) ==
    IF str /= <<>> /\ Head(str) = " " THEN 1 + CountBlanks(Tail(str)) ELSE 0

RECURSIVE CountDigits(_)
\* The number of leading digits of str.
CountDigits(str) ==
    IF str /= <<>> /\ isdigit(Head(str)) THEN 1 + CountDigits(Tail(str))
    ELSE 0

RECURSIVE DecimalValue(_)
\* The number written by a string of digits.
DecimalValue(digits) ==
    IF digits = <<>> THEN 0
    ELSE 10 * DecimalValue(SubSeq(digits, 1, Len(digits) - 1))
            + (CharCode[digits[Len(digits)]] - 48)

\* strtol(str, &end, 10): the number and the count of characters consumed
\* (blanks, a sign, digits); nothing is consumed if there are no digits.
strtol(str) ==
    LET blanks == CountBlanks(str)
        s1 == SubSeq(str, blanks + 1, Len(str))
        signed == s1 /= <<>> /\ Head(s1) \in {"+", "-"}
        s2 == IF signed THEN Tail(s1) ELSE s1
        n == CountDigits(s2)
        v == DecimalValue(SubSeq(s2, 1, n))
        num == IF signed /\ Head(s1) = "-" THEN -v ELSE v
    IN IF n = 0 THEN [num |-> 0, consumed |-> 0]
       ELSE [num |-> num,
             consumed |-> blanks + (IF signed THEN 1 ELSE 0) + n]

\* The code of a character of a command buffer.
CharValue(c) == IF isprint(c) THEN CharCode[c] ELSE 10

\* The switch of gr_set_keyvalue: assigns the value to the field of the
\* command that the key names.
AssignKey(g, k, value, num) ==
    CASE k = "a" -> [g EXCEPT !.cmd.action = value[1]]
      [] k = "t" -> [g EXCEPT !.cmd.transmission_medium = value[1]]
      [] k = "d" -> [g EXCEPT !.cmd.delete_specifier = value[1]]
      [] k = "q" -> [g EXCEPT !.cmd.quiet = num]
      [] k = "f" ->
            LET g1 == [g EXCEPT !.cmd.format = num]
            IN IF num /= 0 /\ num /= 24 /\ num /= 32 /\ num /= 100
               THEN Call("gr_reporterror_cmd", <<g1, "EINVAL",
                        "unsupported format specification">>)
               ELSE g1
      [] k = "o" ->
            LET g1 == [g EXCEPT !.cmd.compression = CharValue(value[1])]
            IN IF value[1] /= "z"
               THEN Call("gr_reporterror_cmd", <<g1, "EINVAL",
                        "unsupported compression specification">>)
               ELSE g1
      [] k = "s" -> [g EXCEPT !.cmd.pix_width = num]
      [] k = "v" -> [g EXCEPT !.cmd.pix_height = num]
      [] k = "i" -> [g EXCEPT !.cmd.image_id = ToUnsigned(num)]
      [] k = "I" -> [g EXCEPT !.cmd.image_number = ToUnsigned(num)]
      [] k = "p" -> [g EXCEPT !.cmd.placement_id = ToUnsigned(num)]
      [] k = "x" -> [g EXCEPT !.cmd.src_pix_x = num]
      [] k = "y" -> [g EXCEPT !.cmd.src_pix_y = num]
      [] k = "w" -> [g EXCEPT !.cmd.src_pix_width = num]
      [] k = "h" -> [g EXCEPT !.cmd.src_pix_height = num]
      [] k = "c" -> [g EXCEPT !.cmd.columns = num]
      [] k = "r" -> [g EXCEPT !.cmd.rows = num]
      [] k = "m" -> [g EXCEPT !.cmd.is_data_transmission = TRUE,
                              !.cmd.more = num]
      [] k = "S" -> [g EXCEPT !.cmd.size = num]
      [] k = "U" -> [g EXCEPT !.cmd.virtual = num]
      [] k \in {"X", "Y", "z"} -> g
      [] k = "C" -> [g EXCEPT !.cmd.do_not_move_cursor = ToChar(num)]
      [] OTHER -> Call("gr_reporterror_cmd", <<g, "EINVAL", "unsupported key">>)

\* Parses the value and assigns it to the field of the command specified by
\* the key.
gr_set_keyvalue(g, key, value) ==
    IF Len(key) /= 1
    THEN Call("gr_reporterror_cmd", <<g, "EINVAL", "unknown key">>)
    ELSE IF key[1] \in {"a", "t", "d", "o"}
    THEN (IF Len(value) /= 1
          THEN Call("gr_reporterror_cmd", <<g, "EINVAL",
                    "value of 'a', 't' or 'd' must be a single char">>)
          ELSE AssignKey(g, key[1], value, 0))
    ELSE LET n == strtol(value)
         IN IF n.consumed /= Len(value)
            THEN Call("gr_reporterror_cmd", <<g, "EINVAL",
                        "could not parse number value">>)
            ELSE AssignKey(g, key[1], value, n.num)

\* The first position from c on at which the loop of gr_parse_command does
\* something other than ++c in the given state: in 'k' the next of , ; = and
\* the terminating NUL, in 'v' the next of , ; and NUL, in 'p' c itself.
SkipTo(buf, c, state) ==
    LET stops == CASE state = "k" -> {",", ";", "="}
                   [] state = "v" -> {",", ";"}
                   [] OTHER -> {buf[i] : i \in 1..Len(buf)}
        found == {i \in c..Len(buf) : buf[i] \in stops}
    IN IF found = {} THEN IF c > Len(buf) THEN c ELSE Len(buf) + 1
       ELSE CHOOSE i \in found : \A j \in found : i <= j

\* The locals of gr_parse_command as the loop starts.
ParseStart(buf) ==
    [g |-> [cmd |-> ZeroCommand, result |-> ZeroResult],
     c |-> SkipTo(buf, 1, "k"), state |-> "k", key_start |-> 1,
     key_end |-> 0, val_start |-> 0]

RECURSIVE ParseLoop(_, _)
\* The loop of gr_parse_command over buf (the command without the 'G';
\* position Len(buf) + 1 holds the terminating NUL), with its locals in the
\* record s: s.c is the position, s.g the command and the result so far.
ParseLoop(buf, s) ==
    LET c == s.c
        ch == IF c >= Len(buf) + 1 THEN NUL ELSE buf[c]
        next == IF ch = "," THEN "k" ELSE "p"
        at_end == ch \in {",", ";", NUL}
    IN CASE c > Len(buf) + 1 -> s.g
         [] c <= Len(buf) + 1 /\ s.state = "k" /\ at_end ->
            ParseLoop(buf,
                [s EXCEPT !.g = Call("gr_reporterror_cmd", <<s.g, "EINVAL",
                                        "key without value">>),
                          !.c = SkipTo(buf, c + 1, next),
                          !.state = next, !.key_end = c])
         [] c <= Len(buf) + 1 /\ s.state = "k" /\ ch = "=" ->
            ParseLoop(buf,
                [s EXCEPT !.c = SkipTo(buf, c + 1, "v"), !.state = "v",
                          !.key_end = c, !.val_start = c + 1])
         [] c <= Len(buf) + 1 /\ s.state = "v" ->
            ParseLoop(buf,
                [s EXCEPT !.g = Call("gr_set_keyvalue", <<s.g,
                                    SubSeq(buf, s.key_start, s.key_end - 1),
                                    SubSeq(buf, s.val_start, c - 1)>>),
                          !.c = SkipTo(buf, c + 1, next),
                          !.state = next, !.key_start = c + 1])
         [] c <= Len(buf) + 1 /\ s.state = "p" ->
            [s.g EXCEPT !.cmd.payload = SubSeq(buf, c, Len(buf))]

\* The command and the result that the parsing loop of gr_parse_command
\* leaves behind for the frame 'G' buf.  The loop reads no global but
\* graphics_command_result, which has just been zeroed.
ParsedFrame(buf) == ParseLoop(buf, ParseStart(buf))

\* gr_parse_command that hands the command to gr_handle_command whether or
\* not the parser reported an error.
gr_parse_command_dispatching(g, buf) ==
    IF buf = <<>> \/ buf[1] /= "G" THEN g
    ELSE
     LET parsed == ParsedFrame(Tail(buf))
         g2 == [g EXCEPT !.result = parsed.result,
                         !.global_command_counter = @ + 1,
                         !.cmd = parsed.cmd]
         g3 == Call("gr_handle_command", <<g2>>)
     IN IF g3.cmd.quiet /= 0
           /\ (~g3.result.error \/ g3.cmd.quiet >= 2)
        THEN [g3 EXCEPT !.result.response = NoResponse]
        ELSE g3

\* Parses and executes a graphics command.
gr_parse_command(g, buf) ==
    IF buf = <<>> \/ buf[1] /= "G" THEN g
    ELSE
     LET parsed == ParsedFrame(Tail(buf))
         g2 == [g EXCEPT !.result = parsed.result,
                         !.global_command_counter = @ + 1,
                         !.cmd = parsed.cmd]
         g3 == IF ~g2.result.error THEN Call("gr_handle_command", <<g2>>) ELSE g2
     IN IF g3.cmd.quiet /= 0
           /\ (~g3.result.error \/ g3.cmd.quiet >= 2)
        THEN [g3 EXCEPT !.result.response = NoResponse]
        ELSE g3

\* A call of a C function, by its name and with the tuple of its arguments.
Call(f, a) ==
    CASE f = "gr_delete_image" ->
            gr_delete_image(a[1], a[2])
      [] f = "gr_delete_placement" ->
            gr_delete_placement(a[1], a[2], a[3])
      [] f = "gr_check_limits" ->
            gr_check_limits(a[1])
      [] f = "gr_new_image" ->
            gr_new_image(a[1], a[2], a[3])
      [] f = "gr_new_placement" ->
            gr_new_placement(a[1], a[2], a[3], a[4])
      [] f = "gr_infer_placement_size_maybe" ->
            gr_infer_placement_size_maybe(a[1], a[2], a[3])
      [] f = "gr_load_image" ->
            gr_load_image(a[1], a[2])
      [] f = "gr_load_placement" ->
            gr_load_placement(a[1], a[2], a[3], a[4], a[5])
      [] f = "gr_drawimagerect" ->
            gr_drawimagerect(a[1], a[2])
      [] f = "gr_append_imagerect" ->
            gr_append_imagerect(a[1], a[2])
      [] f = "gr_finish_drawing" ->
            gr_finish_drawing(a[1])
      [] f = "gr_unload_images_to_reduce_ram" ->
            gr_unload_images_to_reduce_ram(a[1])
      [] f = "gr_loadimage_and_report" ->
            gr_loadimage_and_report(a[1], a[2])
      [] f = "gr_reportuploaderror" ->
            gr_reportuploaderror(a[1], a[2])
      [] f = "gr_display_nonvirtual_placement" ->
            gr_display_nonvirtual_placement(a[1], a[2], a[3])
      [] f = "gr_append_data" ->
            gr_append_data(a[1], a[2], a[3], a[4])
      [] f = "gr_new_image_from_command" ->
            gr_new_image_from_command(a[1])
      [] f = "gr_handle_transmit_command" ->
            gr_handle_transmit_command(a[1])
      [] f = "gr_handle_put_command" ->
            gr_handle_put_command(a[1])
      [] f = "gr_for_each_image_cell" ->
            gr_for_each_image_cell(a[1], a[2])
      [] f = "gr_handle_delete_command" ->
            gr_handle_delete_command(a[1])
      [] f = "gr_handle_command" ->
            gr_handle_command(a[1])
      [] f = "gr_parse_command" ->
            gr_parse_command(a[1], a[2])
      [] f = "gr_reporterror_cmd" ->
            gr_reporterror_cmd(a[1], a[2], a[3])
      [] f = "gr_reporterror_img" ->
            gr_reporterror_img(a[1], a[2], a[3], a[4])
      [] f = "gr_reportsuccess_cmd" ->
            gr_reportsuccess_cmd(a[1])
      [] f = "gr_reportsuccess_img" ->
            gr_reportsuccess_img(a[1], a[2])
      [] f = "gr_set_keyvalue" ->
            gr_set_keyvalue(a[1], a[2], a[3])

----------------------------------------------------------------------------
(* The state machine: the terminal calls the entry points of the module.   *)

\* The globals as the record the operators thread, with the outcomes of the
\* calls to the environment (fopen, cp, rand) during this handler.
Store(env) ==
    [images |-> images, total_placement_count |-> total_placement_count,
     images_disk_size |-> images_disk_size,
     images_ram_size |-> images_ram_size, last_image_id |-> last_image_id,
     current_cw |-> current_cw, current_ch |-> current_ch,
     current_upload_image_id |-> current_upload_image_id,
     global_command_counter |-> global_command_counter,
     image_rects |-> image_rects, result |-> graphics_command_result,
     config |-> config, clock |-> clock, files |-> files, grid |-> grid,
     drawn |-> <<>>, limits |-> {}, erased |-> {}, cmd |-> ZeroCommand,
     env |-> env, rand_rejected |-> FALSE]

\* The globals the handler leaves behind.
Commit(g) ==
    /\ images' = g.images
    /\ total_placement_count' = g.total_placement_count
    /\ images_disk_size' = g.images_disk_size
    /\ images_ram_size' = g.images_ram_size
    /\ last_image_id' = g.last_image_id
    /\ current_cw' = g.current_cw
    /\ current_ch' = g.current_ch
    /\ current_upload_image_id' = g.current_upload_image_id
    /\ global_command_counter' = g.global_command_counter
    /\ image_rects' = g.image_rects
    /\ graphics_command_result' = g.result
    /\ config' = g.config
    /\ clock' = g.clock
    /\ files' = g.files
    /\ grid' = g.grid
    /\ drawn' = g.drawn
    /\ limits' = g.limits
    /\ erased' = g.erased

\* fopen and cp succeed; rand() yields these ids.
OkEnv(rand_image, rand_placement) ==
    [fopen_ok |-> TRUE, cp_ok |-> TRUE, rand_image |-> rand_image,
     rand_placement |-> rand_placement, overflow |-> "wrap"]

\* The terminal creates the placeholder of graphics_command_result: classic
\* cells for the rows x columns box, from the cursor cell on.
CreatePlaceholder(g, cursor) ==
    LET ph == g.result.placeholder
        last == MIN(cursor + ph.rows * ph.columns - 1, Len(g.grid))
    IN IF ~g.result.create_placeholder THEN g
       ELSE [g EXCEPT !.grid =
                [i \in DOMAIN g.grid |->
                    IF i >= cursor /\ i <= last
                    THEN [image_id |-> ph.image_id,
                          placement_id |-> ph.placement_id,
                          is_classic |-> TRUE]
                    ELSE g.grid[i]]]

\* The cells where the cursor may be when a placeholder is created.
Cursors(g) ==
    IF g.result.create_placeholder
       /\ g.result.placeholder.rows * g.result.placeholder.columns > 0
    THEN DOMAIN g.grid ELSE {1}

\* Whether the terminal is between gr_start_drawing and gr_finish_drawing.
Drawing == last_call.op \in {"gr_start_drawing", "gr_append_imagerect"}

\* The terminal hands the frame buf to gr_parse_command and then creates the
\* placeholder the command asks for, with the cursor in one of the cells.
CallParseCommand(buf, env, cells) ==
    /\ ~Drawing
    /\ LET g == Call("gr_parse_command", <<Store(env), buf>>)
       IN /\ ~g.rand_rejected
          /\ \E cursor \in Cursors(g) \cap cells :
                Commit(CreatePlaceholder(g, cursor))
    /\ last_call' = [op |-> "gr_parse_command", buf |-> buf, env |-> env]

CallStartDrawing(cw, ch) ==
    /\ ~Drawing
    /\ Commit(gr_start_drawing(Store(OkEnv(0, 0)), cw, ch))
    /\ last_call' = [op |-> "gr_start_drawing", buf |-> <<>>,
                      env |-> OkEnv(0, 0)]

\* The stripe of the default placement of the image at the given row of the
\* window, one cell wide.
Stripe(image_id, row) ==
    [image_id |-> image_id, placement_id |-> 0, x_pix |-> 0,
     y_pix |-> row * current_ch, start_col |-> 0, end_col |-> 1,
     start_row |-> row, end_row |-> row + 1, cw |-> current_cw,
     ch |-> current_ch, reverse |-> 0]

CallAppendImageRect(rect) ==
    /\ Drawing
    /\ \A i \in 1..MAX_IMAGE_RECTS : image_rects[i].image_id /= rect.image_id
    /\ Commit(Call("gr_append_imagerect", <<Store(OkEnv(0, 0)), rect>>))
    /\ last_call' = [op |-> "gr_append_imagerect", buf |-> <<>>,
                      env |-> OkEnv(0, 0)]

CallFinishDrawing ==
    /\ Drawing
    /\ Commit(Call("gr_finish_drawing", <<Store(OkEnv(0, 0))>>))
    /\ last_call' = [op |-> "gr_finish_drawing", buf |-> <<>>,
                      env |-> OkEnv(0, 0)]

CallUnloadImages ==
    /\ ~Drawing
    /\ last_call.op /= "gr_unload_images_to_reduce_ram"
    /\ Commit(Call("gr_unload_images_to_reduce_ram", <<Store(OkEnv(0, 0))>>))
    /\ last_call' = [op |-> "gr_unload_images_to_reduce_ram", buf |-> <<>>,
                      env |-> OkEnv(0, 0)]

----------------------------------------------------------------------------
(* The clients' frames and the terminal's settings explored.               *)

\* Ga=t,f=32,s=1,v=1,i=1,S=4,m=1;AAA=  The first chunk (2 bytes) of a direct upload of 4 bytes, a 1x1 image.
FrameUploadFirst ==
    <<"G", "a", "=", "t", ",", "f", "=", "3", "2", ",", "s", "=", "1", ",",
      "v", "=", "1", ",", "i", "=", "1", ",", "S", "=", "4", ",", "m", "=",
      "1", ";", "A", "A", "A", "=">>

\* Gm=0;AAA=  The last chunk, 2 bytes.
FrameUploadLast ==
    <<"G", "m", "=", "0", ";", "A", "A", "A", "=">>

\* Gm=0;AAAAAA==  A last chunk of 4 bytes.
FrameUploadLastLong ==
    <<"G", "m", "=", "0", ";", "A", "A", "A", "A", "A", "A", "=", "=">>

\* Ga=T,t=f,i=2,c=1,r=1;L2E=  Transmit the file /a and display it in one cell.
FrameFileShow ==
    <<"G", "a", "=", "T", ",", "t", "=", "f", ",", "i", "=", "2", ",", "c",
      "=", "1", ",", "r", "=", "1", ";", "L", "2", "E", "=">>

\* Ga=p,i=2,p=5  A plain put of image 2.
FramePut ==
    <<"G", "a", "=", "p", ",", "i", "=", "2", ",", "p", "=", "5">>

\* Ga=d  Delete all visible placements.
FrameDelete ==
    <<"G", "a", "=", "d">>

Frames ==
    {FrameUploadFirst, FrameUploadLast, FrameUploadLastLong, FrameFileShow,
     FramePut, FrameDelete}

\* The ceilings of config.h; the tolerance ratio is given in percent.
ConfigTight ==
    [max_single_image_file_size |-> 4, total_file_cache_size |-> 4,
     max_single_image_ram_size |-> 64, max_total_ram_size |-> 16,
     max_total_placements |-> 1, excess_tolerance_pct |-> 50]

ConfigRoomy ==
    [max_single_image_file_size |-> 100, total_file_cache_size |-> 1000,
     max_single_image_ram_size |-> 1000, max_total_ram_size |-> 1000,
     max_total_placements |-> 10, excess_tolerance_pct |-> 20]

Configs == {ConfigTight, ConfigRoomy}

\* What the environment may do during a command: fopen or cp may fail;
\* rand() yields these ids.
Envs ==
    {OkEnv(16777472, 256),
     [OkEnv(16777472, 256) EXCEPT !.fopen_ok = FALSE],
     [OkEnv(16777472, 256) EXCEPT !.cp_ok = FALSE]}

\* The cell sizes the terminal draws with.
CellSizes == {<<2, 2>>, <<4, 2>>}

\* The images the terminal has cells for.
DrawnImageIds == {1, 2}
\* The id of the image shown in a row below the first: an image the store
\* does not know.
FillerImageId(row) == 100 + row

\* The state after gr_init, under the configuration cfg.
InitWith(cfg) ==
    /\ images = EmptyMap
    /\ total_placement_count = 0
    /\ images_disk_size = 0
    /\ images_ram_size = 0
    /\ last_image_id = 0
    /\ current_cw = 0
    /\ current_ch = 0
    /\ current_upload_image_id = 0
    /\ global_command_counter = 0
    /\ image_rects = [i \in 1..MAX_IMAGE_RECTS |-> ZeroRect]
    /\ graphics_command_result = ZeroResult
    /\ config = cfg
    /\ clock = 0
    /\ files = EmptyMap
    /\ grid = [i \in 1..NumCells |-> EmptyCell]
    /\ drawn = <<>>
    /\ limits = {}
    /\ erased = {}
    /\ last_call = [op |-> "gr_init", buf |-> <<>>, env |-> OkEnv(0, 0)]
    /\ trace = <<>>

Init == \E cfg \in Configs : InitWith(cfg)

ParseCommand ==
    /\ global_command_counter < MaxCommands
    /\ clock < MaxClock
    /\ \E buf \in Frames, env \in Envs : CallParseCommand(buf, env, {1})
    /\ UNCHANGED trace

StartDrawing ==
    /\ clock < MaxClock
    /\ \E size \in CellSizes : CallStartDrawing(size[1], size[2])
    /\ UNCHANGED trace

AppendImageRect ==
    /\ clock < MaxClock
    /\ \E id \in DrawnImageIds : CallAppendImageRect(Stripe(id, 0))
    /\ UNCHANGED trace

RECURSIVE AppendStripes(_)
\* gr_append_imagerect called for each rect of the sequence s.rects, from
\* the store s.g.
AppendStripes(s) ==
    IF s.rects = <<>> THEN s.g
    ELSE AppendStripes(
            [g |-> Call("gr_append_imagerect", <<s.g, Head(s.rects)>>),
             rects |-> Tail(s.rects)])

\* The rows below the first show images the store does not know, a different
\* one in each row: the terminal appends their stripes (as many as leave one
\* slot of image_rects) one after the other.
AppendFillerRects ==
    /\ Drawing
    /\ clock < MaxClock
    /\ \A i \in 1..MAX_IMAGE_RECTS :
            image_rects[i].image_id < FillerImageId(1)
    /\ Commit(AppendStripes(
            [g |-> Store(OkEnv(0, 0)),
             rects |-> [row \in 1..(MAX_IMAGE_RECTS - 1) |->
                            Stripe(FillerImageId(row), row)]]))
    /\ last_call' = [op |-> "gr_append_imagerect", buf |-> <<>>,
                      env |-> OkEnv(0, 0)]
    /\ UNCHANGED trace

FinishDrawing == CallFinishDrawing /\ UNCHANGED trace

UnloadImages == CallUnloadImages /\ UNCHANGED trace

Next ==
    \/ ParseCommand
    \/ StartDrawing
    \/ AppendImageRect
    \/ AppendFillerRects
    \/ FinishDrawing
    \/ UnloadImages

Spec == Init /\ [][Next]_vars

----------------------------------------------------------------------------
(* The scenarios of the specification: the frames of S1 to S5 in any       *)
(* order, the terminal drawing with cells of 10x20 pixels.                 *)

\* Ga=t,f=32,s=2,v=2,i=1,S=16,m=1;AAAAAAAAAAA=  The first 8 bytes of a direct
\* upload of a 2x2 image of 16 bytes.
FrameS1First ==
    <<"G", "a", "=", "t", ",", "f", "=", "3", "2", ",", "s", "=", "2", ",",
      "v", "=", "2", ",", "i", "=", "1", ",", "S", "=", "1", "6", ",", "m",
      "=", "1", ";", "A", "A", "A", "A", "A", "A", "A", "A", "A", "A", "A",
      "=">>

\* Ga=t,f=32,s=2,v=2,i=1,S=32,m=1;AAAAAAAAAAA=  The same, declaring 32 bytes.
FrameS2First ==
    <<"G", "a", "=", "t", ",", "f", "=", "3", "2", ",", "s", "=", "2", ",",
      "v", "=", "2", ",", "i", "=", "1", ",", "S", "=", "3", "2", ",", "m",
      "=", "1", ";", "A", "A", "A", "A", "A", "A", "A", "A", "A", "A", "A",
      "=">>

\* Gm=0;AAAAAAAAAAA=  The last 8 bytes.
FrameS1Last ==
    <<"G", "m", "=", "0", ";", "A", "A", "A", "A", "A", "A", "A", "A", "A",
      "A", "A", "=">>

\* Ga=p,i=1,p=7,U=1  A virtual placement of image 1.
FramePutVirtual ==
    <<"G", "a", "=", "p", ",", "i", "=", "1", ",", "p", "=", "7", ",", "U",
      "=", "1">>

\* Ga=T,t=f,i=2;L2I=  Transmit the file /b and display it.
FrameFileBig ==
    <<"G", "a", "=", "T", ",", "t", "=", "f", ",", "i", "=", "2", ";", "L",
      "2", "I", "=">>

\* Ga=T,t=f,i=3,c=1,r=1;L2E=  Transmit the file /a as image 3 and display it
\* in one cell.
FrameFileShow3 ==
    <<"G", "a", "=", "T", ",", "t", "=", "f", ",", "i", "=", "3", ",", "c",
      "=", "1", ",", "r", "=", "1", ";", "L", "2", "E", "=">>

ScenarioFrames ==
    {FrameS1First, FrameS2First, FrameS1Last, FramePutVirtual, FrameFileBig,
     FrameFileShow, FrameFileShow3, FrameDelete}

\* ConfigRoomy with a file of at most 4 bytes per image.
ConfigSmallFiles == [ConfigRoomy EXCEPT !.max_single_image_file_size = 4]

ScenarioConfigs == {ConfigRoomy, ConfigSmallFiles}

\* The cell size of the scenarios: cw = 10, ch = 20.
ScenarioCell == <<10, 20>>

InitScenario == \E cfg \in ScenarioConfigs : InitWith(cfg)

\* The next frame of the client, the cursor in any cell.
ScenarioParse ==
    /\ Len(trace) < MaxTrace
    /\ \E buf \in ScenarioFrames :
        /\ CallParseCommand(buf, OkEnv(16777472, 256), DOMAIN grid)
        /\ trace' = Append(trace, buf)

\* The terminal draws: the first time, and again after the put of the
\* virtual placement.
ScenarioStartDrawing ==
    /\ current_cw = 0 \/ last_call.buf = FramePutVirtual
    /\ CallStartDrawing(ScenarioCell[1], ScenarioCell[2])
    /\ UNCHANGED trace

\* A cell of the window shows the virtual placement 7 of image 1.
ScenarioAppendImageRect ==
    /\ CallAppendImageRect([Stripe(1, 0) EXCEPT !.placement_id = 7])
    /\ UNCHANGED trace

ScenarioFinishDrawing == CallFinishDrawing /\ UNCHANGED trace

\* The terminal writes a Unicode placeholder of image 2 into the last cell.
WriteUnicodeCell ==
    /\ ~Drawing
    /\ trace = <<>>
    /\ grid[NumCells].image_id = 0
    /\ grid' = [grid EXCEPT ![NumCells] =
                    [image_id |-> 2, placement_id |-> 0,
                     is_classic |-> FALSE]]
    /\ UNCHANGED <<images, total_placement_count, images_disk_size,
                   images_ram_size, last_image_id, current_cw, current_ch,
                   current_upload_image_id, global_command_counter,
                   image_rects, graphics_command_result, config, clock,
                   files, drawn, limits, erased, last_call, trace>>

NextScenario ==
    \/ ScenarioParse
    \/ ScenarioStartDrawing
    \/ ScenarioAppendImageRect
    \/ ScenarioFinishDrawing
    \/ WriteUnicodeCell

SpecScenario == InitScenario /\ [][NextScenario]_vars

----------------------------------------------------------------------------
(* Numbered images: the file /a sent twice under the number 1 (rand()      *)
(* giving the ids), image 2, a virtual placement of the image numbered 1,  *)
(* and the deletion of what is visible.                                    *)

\* Ga=T,t=f,I=1,p=5,c=1,r=1;L2E=  Transmit the file /a as an image with the
\* number 1 and display it in one cell as placement 5.
FrameShowNumbered ==
    <<"G", "a", "=", "T", ",", "t", "=", "f", ",", "I", "=", "1", ",", "p",
      "=", "5", ",", "c", "=", "1", ",", "r", "=", "1", ";", "L", "2", "E",
      "=">>

\* Ga=p,I=1,p=7,U=1  A virtual placement of the image with the number 1.
FramePutNumberedVirtual ==
    <<"G", "a", "=", "p", ",", "I", "=", "1", ",", "p", "=", "7", ",", "U",
      "=", "1">>

\* The commands handled in the specification of the numbered images.
MaxNumberedCommands == 4

\* The ids that rand() gives to the images sent without id.
NumberedIds == {16777472, 16777728}

NumberedParse ==
    /\ global_command_counter < MaxNumberedCommands
    /\ \E buf \in {FrameShowNumbered, FramePutNumberedVirtual, FrameFileShow,
                   FrameDelete},
          id \in NumberedIds :
            CallParseCommand(buf, OkEnv(id, 256), DOMAIN grid)
    /\ UNCHANGED trace

SpecNumbered == InitWith(ConfigRoomy) /\ [][NumberedParse]_vars

----------------------------------------------------------------------------
(* The store under pressure: two images from the file /a, a second         *)
(* placement of image 2, a direct upload, and a terminal that draws any of *)
(* the placements, with few placements allowed, a small file cache, or     *)
(* little RAM.                                                             *)

\* Ga=T,f=32,s=1,v=1,i=1,p=7,m=1;AAA=  The first chunk (2 bytes) of a direct
\* upload of a 1x1 image that is to be shown as placement 7.
FrameShowFirst ==
    <<"G", "a", "=", "T", ",", "f", "=", "3", "2", ",", "s", "=", "1", ",",
      "v", "=", "1", ",", "i", "=", "1", ",", "p", "=", "7", ",", "m", "=", "1",
      ";", "A", "A", "A", "=">>

\* Ga=p,i=1,p=8  Another placement of image 1.
FramePutAgain ==
    <<"G", "a", "=", "p", ",", "i", "=", "1", ",", "p", "=", "8">>

\* The commands' and drawings' touches explored under pressure.
MaxPressureClock == 9

InitEviction ==
    \E cfg \in {ConfigTight,
                [ConfigRoomy EXCEPT !.total_file_cache_size = 4],
                [ConfigRoomy EXCEPT !.max_total_ram_size = 32]} :
        InitWith(cfg)

EvictionParse ==
    /\ global_command_counter < MaxCommands
    /\ clock < MaxPressureClock
    /\ \E buf \in {FrameFileShow, FrameFileShow3, FramePut, FrameUploadFirst,
                   FrameUploadLast, FrameUploadLastLong, FrameShowFirst,
                   FramePutAgain} :
        /\ CallParseCommand(buf, OkEnv(16777472, 256), {1})
        /\ trace' = Append(trace, buf)

EvictionStartDrawing ==
    /\ clock < MaxPressureClock
    /\ images /= EmptyMap
    /\ CallStartDrawing(2, 2)
    /\ UNCHANGED trace

\* A cell of the window shows a placement of image 2 or 3 that no cell
\* appended in this drawing shows.
EvictionAppendImageRect ==
    /\ Drawing
    /\ clock < MaxPressureClock
    /\ \E ip \in AllPlacements(Store(OkEnv(0, 0))) :
        /\ \A i \in 1..MAX_IMAGE_RECTS :
                <<image_rects[i].image_id, image_rects[i].placement_id>> /= ip
        /\ Commit(Call("gr_append_imagerect",
                       <<Store(OkEnv(0, 0)),
                         [Stripe(ip[1], 0) EXCEPT !.placement_id = ip[2]]>>))
    /\ last_call' = [op |-> "gr_append_imagerect", buf |-> <<>>,
                      env |-> OkEnv(0, 0)]
    /\ UNCHANGED trace

NextEviction ==
    \/ EvictionParse
    \/ EvictionStartDrawing
    \/ EvictionAppendImageRect
    \/ FinishDrawing

SpecEviction == InitEviction /\ [][NextEviction]_vars

----------------------------------------------------------------------------
(* Properties.                                                             *)

\* The ceiling of a limit, as gr_check_limits compares against it.
Ceiling(limit) == apply_tolerance([config |-> config], limit)

\* The sum of disk_size over the images of the store.
SumDiskSize == SumOver([i \in DOMAIN images |-> images[i].disk_size],
                       DOMAIN images)

\* The RAM the original buffer of the image i holds.
LoadedImageRam(i) ==
    IF images[i].original_image
    THEN images[i].pix_width * images[i].pix_height * 4 ELSE 0

\* The RAM the scaled buffers of the placements of the image i hold.
LoadedPlacementsRam(i) ==
    SumOver([p \in DOMAIN images[i].placements |->
                LET pl == images[i].placements[p]
                IN IF pl.scaled_image
                   THEN pl.rows * pl.cols * pl.scaled_cw * pl.scaled_ch * 4
                   ELSE 0],
            DOMAIN images[i].placements)

\* C1: after every gr_parse_command and every gr_finish_drawing the counter
\* images_disk_size is the sum of disk_size over the images of the store.
C1_DiskCounter ==
    last_call.op \in {"gr_parse_command", "gr_finish_drawing"}
        => images_disk_size = SumDiskSize

\* A command has left an image whose file was deleted next to an image that
\* still has its file.
C1_Witness ==
    /\ last_call.op = "gr_parse_command"
    /\ images_disk_size > 0
    /\ \E i \in DOMAIN images :
        images[i].disk_size = 0 /\ images[i].uploading_failure /= NO_ERROR

\* C2: after every gr_parse_command, gr_append_imagerect, gr_finish_drawing
\* and gr_unload_images_to_reduce_ram the counter images_ram_size is the sum
\* of the RAM of the loaded original buffers and the loaded scaled buffers.
C2_RamCounter ==
    last_call.op \in {"gr_parse_command", "gr_append_imagerect",
                      "gr_finish_drawing", "gr_unload_images_to_reduce_ram"}
        => images_ram_size =
            SumOver([i \in DOMAIN images |->
                        LoadedImageRam(i) + LoadedPlacementsRam(i)],
                    DOMAIN images)

\* A drawing has loaded a scaled buffer while an original buffer is loaded.
C2_Witness ==
    /\ last_call.op = "gr_finish_drawing"
    /\ \E i \in DOMAIN images : LoadedPlacementsRam(i) > 0
    /\ \E i \in DOMAIN images : LoadedImageRam(i) > 0

C4_PlacementCeiling ==
    last_call.op = "gr_parse_command"
        => total_placement_count <= Ceiling(config.max_total_placements)

\* The frames of scenario S1 have been given, to an empty store with roomy
\* ceilings, and gr_parse_command has just returned.
AfterS1 ==
    /\ trace = <<FrameS1First, FrameS1Last>>
    /\ last_call.op = "gr_parse_command"
    /\ config = ConfigRoomy

\* C5: after the two frames of S1 there is exactly one image, with id 1,
\* disk_size 16, its file closed, loaded into RAM, and no direct upload is
\* current.
C5_S1State ==
    AfterS1 =>
        /\ DOMAIN images = {1}
        /\ images[1].image_id = 1
        /\ images[1].disk_size = 16
        /\ ~images[1].open_file
        /\ images[1].status = STATUS_RAM_LOADING_SUCCESS
        /\ current_upload_image_id = 0

\* S1 has run, and the original buffer of image 1 is 2x2 pixels.
C5_Witness ==
    /\ AfterS1
    /\ 1 \in DOMAIN images
    /\ images[1].original_image
    /\ images[1].pix_width = 2 /\ images[1].pix_height = 2
    /\ Len(files[1]) = 16

\* C6: the first frame of S1 leaves an empty response, the last frame leaves
\* the response OK for i=1.
C6_S1Response ==
    /\ (trace = <<FrameS1First>> /\ last_call.op = "gr_parse_command")
            => graphics_command_result.response = NoResponse
    /\ AfterS1 =>
            /\ graphics_command_result.response.code = "OK"
            /\ graphics_command_result.response.image_id = 1

\* The number of bytes in the payload of the frame.
ChunkSize(buf) == Len(gr_base64dec(ParsedFrame(Tail(buf)).cmd.payload))

\* This step is gr_parse_command given the last chunk of the direct upload
\* of the image id, which declared a size that the chunks do not add up to.
LastChunkOffSize(id) ==
    /\ last_call'.op = "gr_parse_command"
    /\ global_command_counter' = global_command_counter + 1
    /\ last_call'.buf \in {FrameUploadLast, FrameUploadLastLong}
    /\ current_upload_image_id = id
    /\ images[id].status = STATUS_UPLOADING
    /\ images[id].expected_size /= 0
    /\ images[id].disk_size + ChunkSize(last_call'.buf)
            /= images[id].expected_size

\* The image id has ended as an upload of unexpected size.
EndsUnexpectedSize(id) ==
    /\ id \in DOMAIN images'
    /\ images'[id].status = STATUS_UPLOADING_ERROR
    /\ images'[id].uploading_failure = ERROR_UNEXPECTED_SIZE
    /\ ~images'[id].original_image
    /\ graphics_command_result'.error

AfterS3 ==
    /\ last_call.op = "gr_parse_command"
    /\ last_call.buf = FramePutVirtual
    /\ current_cw = ScenarioCell[1] /\ current_ch = ScenarioCell[2]
    /\ 1 \in DOMAIN images
    /\ images[1].status = STATUS_RAM_LOADING_SUCCESS
    /\ images[1].pix_width = 2 /\ images[1].pix_height = 2

\* C8 (as the code has it): the put of S3 leaves the virtual placement 7
\* with cols = 0 and rows = 0 and asks for no placeholder; the placement is
\* 1x1 once gr_load_placement has loaded it for cells of 10x20 pixels.
C8_S3Put ==
    /\ AfterS3 =>
        /\ 7 \in DOMAIN images[1].placements
        /\ images[1].placements[7].virtual = 1
        /\ images[1].placements[7].cols = 0
        /\ images[1].placements[7].rows = 0
        /\ ~graphics_command_result.create_placeholder
    /\ \A i \in DOMAIN images :
        (7 \in DOMAIN images[i].placements
         /\ images[i].placements[7].scaled_image)
            => /\ images[i].placements[7].cols = 1
               /\ images[i].placements[7].rows = 1
               /\ images[i].placements[7].scaled_cw = ScenarioCell[1]
               /\ images[i].placements[7].scaled_ch = ScenarioCell[2]

\* The put of S3 has returned, after a drawing with cells of 10x20 pixels.
C8_Witness ==
    /\ AfterS3
    /\ 7 \in DOMAIN images[1].placements
    /\ images[1].placements[7].virtual = 1

\* C8 as stated: when the put of S3 returns, the placement 7 is virtual, has
\* cols = 1 and rows = 1, and no placeholder is asked for.
C8_AsStated ==
    AfterS3 =>
        /\ 7 \in DOMAIN images[1].placements
        /\ images[1].placements[7].virtual = 1
        /\ images[1].placements[7].cols = 1
        /\ images[1].placements[7].rows = 1
        /\ ~graphics_command_result.create_placeholder

\* C9: with a ceiling of 4 bytes for one image file, the transmission of
\* the file /b of ten bytes creates image 2, which ends as UploadingError
\* with OverSizeLimit, and the response contains EFBIG.
C9_S4FileTooBig ==
    (/\ trace = <<FrameFileBig>>
     /\ last_call.op = "gr_parse_command"
     /\ config = ConfigSmallFiles)
        => /\ 2 \in DOMAIN images
           /\ images[2].status = STATUS_UPLOADING_ERROR
           /\ images[2].uploading_failure = ERROR_OVER_SIZE_LIMIT
           /\ graphics_command_result.response.code = "EFBIG"

\* The cells that hold a classic placeholder.
ClassicCells == {i \in DOMAIN grid : grid[i].image_id /= 0 /\ grid[i].is_classic}

\* C10: the command Ga=d has the callback ask for the erasure of every cell
\* with a classic placeholder and of no other cell, removes the placements
\* those cells show, and deletes no image.
C10_S5DeleteVisible ==
    [][(/\ last_call'.op = "gr_parse_command"
        /\ trace' = Append(trace, FrameDelete))
        => /\ erased' = ClassicCells
           /\ \A i \in DOMAIN grid \ ClassicCells : grid'[i] = grid[i]
           /\ \A i \in ClassicCells : grid'[i] = EmptyCell
           /\ DOMAIN images' = DOMAIN images
           /\ \A i \in ClassicCells :
                grid[i].image_id \in DOMAIN images
                    => grid[i].placement_id
                        \notin DOMAIN images'[grid[i].image_id].placements]_vars

\* Ga=d has been given while two cells showed the classic placements of the
\* images 2 and 3 and a third a Unicode placeholder: the two cells were
\* erased, the third was not, both images are left without placements.
C10_Witness ==
    /\ trace = <<FrameFileShow, FrameFileShow3, FrameDelete>>
    /\ last_call.op = "gr_parse_command"
    /\ Cardinality(erased) = 2
    /\ grid[NumCells].image_id = 2 /\ ~grid[NumCells].is_classic
    /\ DOMAIN images = {2, 3}
    /\ DOMAIN images[2].placements = {}
    /\ DOMAIN images[3].placements = {}

\* The store of the current state, as a handler finds it.
Now == Store(OkEnv(0, 0))

\* The store that gr_load_placement leaves when it is called in the current
\* state for the placement ip with cells of the given size.
Loaded(ip, size) == gr_load_placement(Now, ip[1], ip[2], size[1], size[2])

\* gr_load_placement has built a scaled buffer: it has reached its call of
\* gr_check_limits.
BuiltScaled(ip, size) == Loaded(ip, size).limits /= {}

\* C11: when gr_load_placement returns after building a scaled buffer, the
\* placement still exists, still holds the buffer, and is not protected.
C11_LoadedPlacementKept ==
    \A ip \in AllPlacements(Now), size \in CellSizes :
        BuiltScaled(ip, size) =>
            LET g == Loaded(ip, size)
            IN /\ ip[1] \in DOMAIN g.images
               /\ ip[2] \in DOMAIN g.images[ip[1]].placements
               /\ PlacementAt(g, ip).scaled_image
               /\ PlacementAt(g, ip).scaled_cw = size[1]
               /\ PlacementAt(g, ip).scaled_ch = size[2]
               /\ ~PlacementAt(g, ip).protected

\* In this state the load of a placement builds a buffer that takes the RAM
\* over the ceiling, and gr_check_limits deletes another placement and
\* unloads the original image while the loaded placement is kept.
C11_Witness ==
    \E ip \in AllPlacements(Now), size \in CellSizes :
        /\ BuiltScaled(ip, size)
        /\ Loaded(ip, size).total_placement_count < total_placement_count
        /\ ~Loaded(ip, size).images[ip[1]].original_image
        /\ PlacementAt(Loaded(ip, size), ip).scaled_image
        /\ Loaded(ip, size).images_ram_size
                > Ceiling(config.max_total_ram_size)

\* C12: in every pass of gr_check_limits, no record that the pass could
\* evict is left while the pass evicts a record with a larger atime.
C12_EvictionOrder ==
    \A s \in limits : \A k \in DOMAIN s.passes :
        \A a, b \in s.passes[k] :
            (a.evicted /\ ~b.evicted) => a.atime <= b.atime

\* The pass k of a call of gr_check_limits has evicted a record and left a
\* record with a larger atime that it could have evicted.
EvictedOldestIn(k) ==
    \E s \in limits : \E a, b \in s.passes[k] :
        a.evicted /\ ~b.evicted /\ a.atime < b.atime

\* Both RAM passes (4: original images, 5: scaled placements) have evicted
\* the oldest of their records and left a newer one.
C12_Witness == EvictedOldestIn(4) /\ EvictedOldestIn(5)


\* C13: the atime of an image is at least the atime of each of its
\* placements, and gr_touch_placement gives the placement a later atime and
\* the image the same atime.
C13_ImageAtime ==
    \A ip \in AllPlacements(Now) :
        /\ Now.images[ip[1]].atime >= PlacementAt(Now, ip).atime
        /\ LET g == gr_touch_placement(Now, ip[1], ip[2])
           IN /\ PlacementAt(g, ip).atime > PlacementAt(Now, ip).atime
              /\ g.images[ip[1]].atime = PlacementAt(g, ip).atime

\* An image has two placements; gr_load_placement has touched one of them,
\* which has the later atime, the atime of the image.
C13_Witness ==
    \E i \in DOMAIN images : \E p, q \in DOMAIN images[i].placements :
        /\ images[i].placements[p].scaled_image
        /\ images[i].placements[p].atime > images[i].placements[q].atime
        /\ images[i].atime = images[i].placements[p].atime


\* The default placement of the image i names a placement the image has.
DefaultExists(i) ==
    images[i].default_placement \in DOMAIN images[i].placements

\* C14, as stated: the default placement of every image is zero or names a
\* placement the image has.
C14_AsStated ==
    \A i \in DOMAIN images :
        images[i].default_placement = 0 \/ DefaultExists(i)

\* C14: the default placement is zero only in an image without placements;
\* it may name a placement that is gone, and then the lookup of placement 0
\* yields the first placement the image has and makes it the default, or no
\* placement if the image has none; a default that exists is the one found.
C14_DefaultRepaired ==
    \A i \in DOMAIN images :
        LET found == gr_find_placement(Now, i, 0)
            first == KeysInOrder(DOMAIN images[i].placements)[1]
        IN /\ images[i].default_placement = 0
                => DOMAIN images[i].placements = {}
           /\ DOMAIN images[i].placements = {}
                => found.pid = 0 /\ found.g = Now
           /\ DefaultExists(i)
                => found.pid = images[i].default_placement /\ found.g = Now
           /\ DOMAIN images[i].placements /= {} /\ ~DefaultExists(i)
                => /\ found.pid = first
                   /\ found.g = [Now EXCEPT
                                    !.images[i].default_placement = first]

\* The default placement of an image has been deleted and the image has
\* another placement.
C14_Witness ==
    \E i \in DOMAIN images :
        /\ images[i].default_placement /= 0
        /\ ~DefaultExists(i)
        /\ DOMAIN images[i].placements /= {}


\* The command that the frame carries.
FrameCommand(buf) == ParsedFrame(Tail(buf)).cmd

RECURSIVE SentChunks(_)
\* The direct-transmission sequence the client has last started with the
\* frames tr: its image, the bytes of its chunks in arrival order, and the
\* m= of its last chunk.  A transmission with an image id starts a sequence
\* (a direct one) or ends the sequence of that image (a file); chunks
\* without id continue the sequence while its last chunk had m=1.
SentChunks(tr) ==
    IF tr = <<>> THEN [image_id |-> 0, data |-> <<>>, more |-> 0]
    ELSE LET before == SentChunks(SubSeq(tr, 1, Len(tr) - 1))
             c == FrameCommand(tr[Len(tr)])
             direct == c.transmission_medium \in {NUL, "d"}
         IN CASE c.action \in {"t", "T"} /\ c.image_id /= 0 /\ direct ->
                    [image_id |-> c.image_id,
                     data |-> gr_base64dec(c.payload), more |-> c.more]
              [] c.action \in {"t", "T"} /\ c.image_id = before.image_id
                 /\ ~direct ->
                    [image_id |-> 0, data |-> <<>>, more |-> 0]
              [] c.action \in {NUL, "t", "T"} /\ c.image_id = 0
                 /\ c.image_number = 0 /\ direct /\ before.more /= 0 ->
                    [before EXCEPT !.data = @ \o gr_base64dec(c.payload),
                                   !.more = c.more]
              [] OTHER -> before

\* C15: when the image of a direct-transmission sequence has reached
\* UploadingSuccess and has its cached file, the file holds the bytes of
\* all the chunks of the sequence in arrival order, and disk_size is their
\* number.
C15_ChunksInOrder ==
    LET sent == SentChunks(trace)
    IN (/\ sent.image_id \in DOMAIN images
        /\ sent.more = 0
        /\ images[sent.image_id].status >= STATUS_UPLOADING_SUCCESS
        /\ images[sent.image_id].disk_size > 0)
       => /\ files[sent.image_id] = sent.data
          /\ images[sent.image_id].disk_size = Len(sent.data)


\* The command starts a transmission and is not a chunk without id of the
\* direct medium.
NewTransmission(c) ==
    /\ c.action \in {"t", "T"}
    /\ \/ c.image_id /= 0
       \/ c.image_number /= 0
       \/ c.transmission_medium \in {"f", "t"}

\* C16: when gr_parse_command handles a new transmission while the direct
\* upload of an image is in progress, the record of that image that was
\* being uploaded is not left in the status Uploading.
C16_NewTransmissionAborts ==
    [][(/\ current_upload_image_id \in DOMAIN images
        /\ images[current_upload_image_id].status = STATUS_UPLOADING
        /\ global_command_counter' = global_command_counter + 1
        /\ NewTransmission(FrameCommand(last_call'.buf)))
       => ~(/\ current_upload_image_id \in DOMAIN images'
            /\ images'[current_upload_image_id].global_command_index
                = images[current_upload_image_id].global_command_index
            /\ images'[current_upload_image_id].status = STATUS_UPLOADING)]_vars

\* The frames of action T that the properties apply to the reachable states:
\*   Ga=T,f=32,s=1,v=1,i=1,p=7,m=1;AAA=  the first chunk of a direct upload of image 1 shown as placement 7
\*   Ga=T,m=0;AAA=  a chunk without image id
\*   Ga=T,t=s,i=4,p=7  a medium that is not supported
\*   Ga=T,t=f,i=2,p=5;L2I=  the file /b, which is not an image, shown as placement 5
\*   Ga=T,t=f,i=3;L2E=  the file /a as image 3, the placement id left to the terminal
TransmitAndDisplayFrames ==
    {<<"G", "a", "=", "T", ",", "f", "=", "3", "2", ",", "s", "=", "1", ",",
     "v", "=", "1", ",", "i", "=", "1", ",", "p", "=", "7", ",", "m", "=",
     "1", ";", "A", "A", "A", "=">>,
     <<"G", "a", "=", "T", ",", "m", "=", "0", ";", "A", "A", "A", "=">>,
     <<"G", "a", "=", "T", ",", "t", "=", "s", ",", "i", "=", "4", ",", "p",
     "=", "7">>,
     <<"G", "a", "=", "T", ",", "t", "=", "f", ",", "i", "=", "2", ",", "p",
     "=", "5", ";", "L", "2", "I", "=">>,
     <<"G", "a", "=", "T", ",", "t", "=", "f", ",", "i", "=", "3", ";", "L",
     "2", "E", "=">>}

\* The store after gr_parse_command has handled the frame buf in this state,
\* rand() yielding the ids of Envs.
Parsed(buf) == Call("gr_parse_command", <<Store(OkEnv(16777472, 256)), buf>>)

\* The images that the command handled last has created in the store g.
CreatedImages(g) ==
    {i \in DOMAIN g.images :
        g.images[i].global_command_index = g.global_command_counter}

\* The placements that have been created in the store g since this state.
CreatedPlacements(g) ==
    {ip \in AllPlacements(g) : PlacementAt(g, ip).atime > clock}

LastChunkLoads(id) ==
    /\ current_upload_image_id = id
    /\ id \in DOMAIN images
    /\ images[id].status = STATUS_UPLOADING
    /\ last_call'.op = "gr_parse_command"
    /\ global_command_counter' = global_command_counter + 1
    /\ FrameCommand(last_call'.buf).image_id = 0
    /\ FrameCommand(last_call'.buf).action = NUL
    /\ FrameCommand(last_call'.buf).more = 0
    /\ id \in DOMAIN images'
    /\ images'[id].status = STATUS_RAM_LOADING_SUCCESS

\* C18: when the last chunk of a direct upload leaves the image loaded into
\* RAM, the result of the command asks for the placeholder of every
\* non-virtual placement the image has, with its image id, placement id,
\* columns and rows.
C18_PlaceholderForEvery ==
    [][\A id \in DOMAIN images : LastChunkLoads(id) =>
        \A p \in DOMAIN images[id].placements :
            images[id].placements[p].virtual = 0 =>
                /\ graphics_command_result'.create_placeholder
                /\ graphics_command_result'.placeholder.image_id = id
                /\ graphics_command_result'.placeholder.placement_id = p
                /\ p \in DOMAIN images'[id].placements =>
                    /\ graphics_command_result'.placeholder.columns
                        = images'[id].placements[p].cols
                    /\ graphics_command_result'.placeholder.rows
                        = images'[id].placements[p].rows]_vars


\* The frames with a put that the properties apply to the reachable states:
\* those of the actions and
\*   Ga=p,i=2,p=6,c=2,r=1,C=1  a put that leaves the cursor where it is
\*   Ga=p,i=2,p=6,U=1          a virtual placement of image 2
PutFrames ==
    {FramePut, FramePutAgain, FramePutVirtual, FrameFileShow, FrameShowFirst,
     <<"G", "a", "=", "p", ",", "i", "=", "2", ",", "p", "=", "6", ",", "c",
       "=", "2", ",", "r", "=", "1", ",", "C", "=", "1">>,
     <<"G", "a", "=", "p", ",", "i", "=", "2", ",", "p", "=", "6", ",", "U",
       "=", "1">>}

\* The put of the command that has left the store g has created the
\* placement ip and reported success.
PutSucceeds(g, ip) ==
    /\ ~g.rand_rejected
    /\ CreatedPlacements(g) = {ip}
    /\ g.result.response.code = "OK"

\* The result of the command asks for the placeholder of the placement ip of
\* the store g.
AsksPlaceholder(g, ip) ==
    /\ g.result.create_placeholder
    /\ g.result.placeholder =
        [image_id |-> ip[1], placement_id |-> ip[2],
         columns |-> PlacementAt(g, ip).cols,
         rows |-> PlacementAt(g, ip).rows,
         do_not_move_cursor |-> PlacementAt(g, ip).do_not_move_cursor]

\* C19, as stated: every put that reports success asks for the placeholder
\* of its placement if the placement is not virtual, and for none if it is.
C19_AsStated ==
    \A buf \in PutFrames :
        LET g == Parsed(buf)
        IN \A ip \in AllPlacements(g) :
            PutSucceeds(g, ip) =>
                IF PlacementAt(g, ip).virtual = 0
                THEN AsksPlaceholder(g, ip)
                ELSE ~g.result.create_placeholder

\* C19: a put that reports success asks for the placeholder of its placement
\* if the placement is not virtual and the image is loaded into RAM, and for
\* no placeholder otherwise.
C19_PlaceholderIfLoaded ==
    \A buf \in PutFrames :
        LET g == Parsed(buf)
        IN \A ip \in AllPlacements(g) :
            PutSucceeds(g, ip) =>
                IF /\ PlacementAt(g, ip).virtual = 0
                   /\ g.images[ip[1]].status = STATUS_RAM_LOADING_SUCCESS
                THEN AsksPlaceholder(g, ip)
                ELSE ~g.result.create_placeholder

\* Image 1 is being uploaded and image 2 is loaded: the put of placement 8
\* of image 1 reports success and asks for no placeholder, the put of
\* placement 6 of image 2 asks for a placeholder of 2 columns that leaves
\* the cursor, and the virtual placement of image 2 asks for none.
C19_Witness ==
    /\ 1 \in DOMAIN images /\ images[1].status = STATUS_UPLOADING
    /\ 2 \in DOMAIN images /\ images[2].status = STATUS_RAM_LOADING_SUCCESS
    /\ PutSucceeds(Parsed(FramePutAgain), <<1, 8>>)
    /\ ~Parsed(FramePutAgain).result.create_placeholder
    /\ \E buf \in PutFrames :
        /\ PutSucceeds(Parsed(buf), <<2, 6>>)
        /\ AsksPlaceholder(Parsed(buf), <<2, 6>>)
        /\ Parsed(buf).result.placeholder.columns = 2
        /\ Parsed(buf).result.placeholder.do_not_move_cursor = 1
    /\ \E buf \in PutFrames :
        /\ PutSucceeds(Parsed(buf), <<2, 6>>)
        /\ PlacementAt(Parsed(buf), <<2, 6>>).virtual = 1
        /\ ~Parsed(buf).result.create_placeholder


\* The frames without image id and image number that the property applies
\* to the reachable states: those of the actions and
\*   Ga=T,m=0;AAA=  a chunk of action T
\*   Ga=p,p=5       a put
\*   Ga=q,p=5       a query
\*   Gp=5,a         a key without value after p=
\*   Gp=5,b=1       a key that does not exist after p=
\*   Gp=5,f=9       a format that does not exist after p=
\*   Ga,p=5         a key without value before p=
AnonymousFrames ==
    {FrameDelete, FrameUploadLast, FrameUploadLastLong,
     <<"G", "a", "=", "T", ",", "m", "=", "0", ";", "A", "A", "A", "=">>,
     <<"G", "a", "=", "p", ",", "p", "=", "5">>,
     <<"G", "a", "=", "q", ",", "p", "=", "5">>,
     <<"G", "p", "=", "5", ",", "a">>,
     <<"G", "p", "=", "5", ",", "b", "=", "1">>,
     <<"G", "p", "=", "5", ",", "f", "=", "9">>,
     <<"G", "a", ",", "p", "=", "5">>}

\* C20: a command without image id and image number leaves the response
\* empty when gr_parse_command returns.
C20_NoResponseWithoutId ==
    \A buf \in AnonymousFrames :
        (FrameCommand(buf).image_id = 0 /\ FrameCommand(buf).image_number = 0)
            => Parsed(buf).result.response = NoResponse


\* The frame made of the keys, q= with the digit q, and the payload (with
\* its semicolon).
QuietFrame(keys, q, payload) == keys \o <<",", "q", "=", q>> \o payload

\* The keys and payloads of the frames the quiet levels are tried with:
\*   Ga=T,t=f,i=2;L2E=   transmit the image file /a and display it
\*   Ga=T,t=f,i=2;L2I=   transmit the file /b, which is not an image
\*   Ga=q,t=f,i=7;L2E=   query with the file /a
\*   Ga=p,i=2            put
\*   Gi=1,m=0;AAA=       the last chunk of image 1
\*   Gi=1,b=1            a key that does not exist
QuietKeys ==
    {<<
     <<"G", "a", "=", "T", ",", "t", "=", "f", ",", "i", "=", "2">>,
     <<";", "L", "2", "E", "=">>>>,
     <<
     <<"G", "a", "=", "T", ",", "t", "=", "f", ",", "i", "=", "2">>,
     <<";", "L", "2", "I", "=">>>>,
     <<
     <<"G", "a", "=", "q", ",", "t", "=", "f", ",", "i", "=", "7">>,
     <<";", "L", "2", "E", "=">>>>,
     <<
     <<"G", "a", "=", "p", ",", "i", "=", "2">>,
     <<>> >>,
     <<
     <<"G", "i", "=", "1", ",", "m", "=", "0">>,
     <<";", "A", "A", "A", "=">>>>,
     <<
     <<"G", "i", "=", "1", ",", "b", "=", "1">>,
     <<>> >>}

\* Ga=t,f=32,s=1,v=1,i=5,q=<q>,m=1;AAA=  The first chunk (2 bytes) of
\* image 5, a pixel of 4 bytes, with the quiet level q.
QuietFirstChunk(q) ==
    QuietFrame(
     <<"G", "a", "=", "t", ",", "f", "=", "3", "2", ",", "s", "=", "1", ",",
       "v", "=", "1", ",", "i", "=", "5">>,
     q,
     <<",", "m", "=", "1", ";", "A", "A", "A", "=">>)

\* The last chunks of image 5, none of which has a q key:
\*   Gi=5,m=0;AAA=       completes the pixel
\*   Gi=5,m=0;AAAA       one byte too many
\*   Ga=T,i=5,m=0;AAA=   completes the pixel with the action of the first
\*   Gm=0;AAA=           completes the pixel without naming the image
QuietLastChunks ==
    {
     <<"G", "i", "=", "5", ",", "m", "=", "0", ";", "A", "A", "A", "=">>,
     <<"G", "i", "=", "5", ",", "m", "=", "0", ";", "A", "A", "A", "A">>,
     <<"G", "a", "=", "T", ",", "i", "=", "5", ",", "m", "=", "0", ";", "A",
       "A", "A", "=">>,
     FrameUploadLast}

\* The response obeys the quiet level q: no OK frame at level 1, nothing at
\* level 2.
ObeysQuiet(response, q) ==
    /\ q = "1" => response.code /= "OK"
    /\ q = "2" => response = NoResponse

\* gr_parse_command applied to the frame buf in the store g.
ThenParsed(g, buf) == Call("gr_parse_command", <<g, buf>>)

PlainDeleteFrames ==
    {
     <<"G", "a", "=", "d", ",", "d", "=", "a">>,
     <<"G", "a", "=", "d", ",", "d", "=", "A">>,
     <<"G", "a", "=", "d", ",", "d", "=", "i", ",", "i", "=", "2">>,
     <<"G", "a", "=", "d", ",", "d", "=", "I", ",", "i", "=", "2">>,
     <<"G", "a", "=", "d", ",", "d", "=", "I", ",", "i", "=", "1", "6", "7",
       "7", "7", "4", "7", "2", ",", "p", "=", "5">>,
     <<"G", "a", "=", "d", ",", "d", "=", "n", ",", "I", "=", "1">>,
     <<"G", "a", "=", "d", ",", "d", "=", "N", ",", "I", "=", "1">>,
     <<"G", "a", "=", "d", ",", "d", "=", "N", ",", "I", "=", "1", ",", "p",
       "=", "5">>}

\* Ga=d,d=N,I=1,i=2  Delete by number, with an image id as well.
FrameDeleteNumberAndId ==
    <<"G", "a", "=", "d", ",", "d", "=", "N", ",", "I", "=", "1", ",", "i",
      "=", "2">>

\* The image that the delete command c is about in the current state: the
\* newest with the number for d=n, the one with the id for d=i.
DeleteTarget(c) ==
    IF tolower(c.delete_specifier) = "n"
    THEN gr_find_image_by_number(Now, c.image_number)
    ELSE c.image_id

\* The placement p of image i matches the delete command c: it is visible
\* (d=a), or it is a placement of the target with the id of p=, if any.
MatchesDelete(c, i, p) ==
    IF tolower(c.delete_specifier) \in {NUL, "a"}
    THEN \E k \in DOMAIN grid :
            /\ grid[k].is_classic
            /\ grid[k].image_id = i
            /\ grid[k].placement_id = p
    ELSE /\ i = DeleteTarget(c)
         /\ c.placement_id = 0 \/ c.placement_id = p

\* The delete command of the frame buf removes an image only if its
\* specifier is uppercase and every placement of the image matches.
DeletesOnlyUnplaced(buf) ==
    LET g == Parsed(buf)
        c == FrameCommand(buf)
    IN \A i \in DOMAIN images \ DOMAIN g.images :
        /\ isupper(c.delete_specifier)
        /\ \A p \in DOMAIN images[i].placements : MatchesDelete(c, i, p)

\* C22: a delete command removes an image only if its specifier is
\* uppercase and the image has no placement left once the matching
\* placements are deleted.
C22_DeleteConditional ==
    \A buf \in PlainDeleteFrames \cup {FrameDeleteNumberAndId} :
        DeletesOnlyUnplaced(buf)


\* Ga=d,d=<d>,I=1  Delete by the number 1, d being n or N.
FrameDeleteNumber(d) ==
    <<"G", "a", "=", "d", ",", "d", "=", d, ",", "I", "=", "1">>

\* Ga=d,d=<d>,i=<id>  Delete by id, d being i or I and the id one of those
\* that rand() gives.
FrameDeleteId(d, id) ==
    <<"G", "a", "=", "d", ",", "d", "=", d, ",", "i", "=">>
        \o (IF id = 16777472
            THEN <<"1", "6", "7", "7", "7", "4", "7", "2">>
            ELSE <<"1", "6", "7", "7", "7", "7", "2", "8">>)

\* The delete by number with the specifier n leaves the images, their
\* placements, the grid and the erased cells as the delete by id with the
\* specifier i does, for the newest image with the number 1.
SameDeletion(n, i) ==
    LET X == gr_find_image_by_number(Now, 1)
        byNumber == Parsed(FrameDeleteNumber(n))
        byId == Parsed(FrameDeleteId(i, X))
    IN X /= 0 =>
        /\ byNumber.images = byId.images
        /\ byNumber.total_placement_count = byId.total_placement_count
        /\ byNumber.grid = byId.grid
        /\ byNumber.erased = byId.erased

\* C23: a delete by number (d=n, d=N) has the effect on images, placements
\* and cells of the delete by id (d=i, d=I) of the newest image with the
\* number.
C23_DeleteByNumberAsById ==
    /\ SameDeletion("n", "i")
    /\ SameDeletion("N", "I")


\* The single-frame queries that are applied to the reachable states:
\*   Ga=q,t=f,i=7;L2E=   the image file /a
\*   Ga=q,t=f,i=2;L2E=   the same under the id of image 2
\*   Ga=q,t=f,i=7;L2I=   the file /b, which is not an image
\*   Ga=q,t=f,i=7;L2Q=   the directory /d
\*   Ga=q,t=f;L2E=       the image file /a without id
\*   Ga=q,f=32,s=1,v=1,i=7;AAAAAA==  a pixel sent directly
\*   Ga=q,f=32,s=1,v=1,i=1;AAAAAA==  the same under the id of image 1
QueryFrames ==
    {
     <<"G", "a", "=", "q", ",", "t", "=", "f", ",", "i", "=", "7", ";", "L",
       "2", "E", "=">>,
     <<"G", "a", "=", "q", ",", "t", "=", "f", ",", "i", "=", "2", ";", "L",
       "2", "E", "=">>,
     <<"G", "a", "=", "q", ",", "t", "=", "f", ",", "i", "=", "7", ";", "L",
       "2", "I", "=">>,
     <<"G", "a", "=", "q", ",", "t", "=", "f", ",", "i", "=", "7", ";", "L",
       "2", "Q", "=">>,
     <<"G", "a", "=", "q", ",", "t", "=", "f", ";", "L", "2", "E", "=">>,
     <<"G", "a", "=", "q", ",", "f", "=", "3", "2", ",", "s", "=", "1", ",",
       "v", "=", "1", ",", "i", "=", "7", ";", "A", "A", "A", "A", "A", "A",
       "=", "=">>,
     <<"G", "a", "=", "q", ",", "f", "=", "3", "2", ",", "s", "=", "1", ",",
       "v", "=", "1", ",", "i", "=", "1", ";", "A", "A", "A", "A", "A", "A",
       "=", "=">>}

\* The store g holds the images of the current state, each with its status,
\* its disk_size and its placements.
SameImages(g) ==
    /\ DOMAIN g.images = DOMAIN images
    /\ \A i \in DOMAIN images :
        /\ g.images[i].status = images[i].status
        /\ g.images[i].disk_size = images[i].disk_size
        /\ g.images[i].placements = images[i].placements

\* C24: a single-frame query leaves in the store exactly the images it found
\* there, with their status, disk_size and placements.
C24_QueryDiscarded ==
    \A buf \in QueryFrames :
        ~Parsed(buf).rand_rejected => SameImages(Parsed(buf))


\* The single-frame queries with an image id and without q= that are applied
\* to the reachable states: those of QueryFrames that have an id and
\*   Ga=q,f=100,i=7;AAAAAA==  four bytes sent directly that are not an
\*                            image file
IdentifiedQueryFrames ==
    {buf \in QueryFrames : FrameCommand(buf).image_id /= 0}
    \cup {
     <<"G", "a", "=", "q", ",", "f", "=", "1", "0", "0", ",", "i", "=", "7",
       ";", "A", "A", "A", "A", "A", "A", "=", "=">>}

\* The bytes that the command c transmits: those of the file it names, or
\* those of its payload.
TransmittedData(c) ==
    LET filename == CString(gr_base64dec(c.payload))
    IN IF c.transmission_medium \in {"f", "t"}
       THEN (IF filename \in DOMAIN HostFiles
             THEN HostFiles[filename].content ELSE <<>>)
       ELSE gr_base64dec(c.payload)

\* gr_load_image decodes the data that the command c transmits, taken alone
\* as the cached file of an image with the parameters of c.
DecoderAccepts(c) ==
    LET data == TransmittedData(c)
        probe == [ZeroImage EXCEPT
                    !.image_id = 1,
                    !.status = STATUS_UPLOADING_SUCCESS,
                    !.disk_size = Len(data),
                    !.format = c.format,
                    !.compression = ToChar(c.compression),
                    !.pix_width = c.pix_width,
                    !.pix_height = c.pix_height]
        g == [Now EXCEPT !.images = MapPut(EmptyMap, 1, probe),
                         !.files = MapPut(EmptyMap, 1, data)]
    IN gr_load_image(g, 1).images[1].original_image

\* The response to the query of the frame buf carries the id of the query;
\* it is OK if the decoder accepts the transmitted image and an error
\* otherwise.
QueryAnswered(buf) ==
    LET g == Parsed(buf)
        c == FrameCommand(buf)
        r == g.result.response
    IN ~g.rand_rejected =>
        /\ r.image_id = c.image_id
        /\ IF DecoderAccepts(c) THEN r.code = "OK" /\ ~g.result.error
           ELSE r.code \notin {"", "OK"} /\ g.result.error

\* C25: the response to a single-frame query with an image id and without
\* q= is OK with that id if and only if the decoder accepts the transmitted
\* image, and an error with that id otherwise.
C25_QueryResponse == \A buf \in IdentifiedQueryFrames : QueryAnswered(buf)


\* Ga=t,f=32,s=1,v=1,i=1,m=1;  A first chunk without data.
FrameUploadEmpty ==
    <<"G", "a", "=", "t", ",", "f", "=", "3", "2", ",", "s", "=", "1", ",",
      "v", "=", "1", ",", "i", "=", "1", ",", "m", "=", "1", ";">>

\* The RAM that the buffers of the image im and of its placements hold.
BuffersRam(im) ==
    (IF im.original_image THEN im.pix_width * im.pix_height * 4 ELSE 0)
    + SumOver([p \in DOMAIN im.placements |->
                LET pl == im.placements[p]
                IN IF pl.scaled_image
                   THEN pl.rows * pl.cols * pl.scaled_cw * pl.scaled_ch * 4
                   ELSE 0],
              DOMAIN im.placements)

\* gr_new_image called in the store g0 with the id of its image i removes
\* the cached file of the old record and subtracts its disk_size from the
\* disk total, subtracts its buffers from the RAM total and its placements
\* from the placement count, and leaves a record without placements, with
\* disk_size 0 and default_placement 0; the other images are left alone.
ReplacesImage(g0, i) ==
    LET r == Call("gr_new_image", <<g0, i, 0>>)
        g == r.g
        old == g0.images[i]
        new == g.images[i]
    IN /\ r.img = i
       /\ DOMAIN g.images = DOMAIN g0.images
       /\ i \notin DOMAIN g.files
       /\ g.images_disk_size = g0.images_disk_size - old.disk_size
       /\ g.images_ram_size = g0.images_ram_size - BuffersRam(old)
       /\ g.total_placement_count =
            g0.total_placement_count - Cardinality(DOMAIN old.placements)
       /\ new = [ZeroImage EXCEPT
                    !.image_id = i,
                    !.atime = g0.clock + 1,
                    !.global_command_index = g0.global_command_counter]
       /\ new.placements = EmptyMap
       /\ new.disk_size = 0
       /\ new.default_placement = 0
       /\ \A j \in DOMAIN g0.images \ {i} : g.images[j] = g0.images[j]

\* C26: gr_new_image with the id of an existing image first destroys the
\* old record (file, disk and RAM accounting, placements) and leaves a
\* fresh one, in the current state and after a first chunk without data.
C26_ReplacedImage ==
    \A g0 \in {Now, Parsed(FrameUploadEmpty)} :
        \A i \in DOMAIN g0.images : ReplacesImage(g0, i)


\* The strip of h rows immediately below the rect: the same image,
\* placement, cell size, reverse flag, columns and x_pix, starting at the
\* end_row and at the bottom of the rect.
StripBelow(rect, h) ==
    [rect EXCEPT !.start_row = rect.end_row,
                 !.end_row = rect.end_row + h,
                 !.y_pix = rect.y_pix
                            + (rect.end_row - rect.start_row) * rect.ch]

\* The slots of the table rects that hold a rect.
StoredRects(rects) == {i \in DOMAIN rects : rects[i].image_id /= 0}

\* The store after gr_append_imagerect has been called with the rect in the
\* current state.
Appended(rect) == Call("gr_append_imagerect", <<Now, rect>>)

\* C27: appending the strip immediately below a stored rect extends the
\* end_row of that rect to the end_row of the strip and changes nothing
\* else: as many rects are stored, the rect starts where it started and ends
\* where the strip ends, and nothing is drawn.
C27_Coalescing ==
    \A i \in StoredRects(image_rects), h \in 1..2 :
        LET strip == StripBelow(image_rects[i], h)
            g == Appended(strip)
        IN /\ g.image_rects =
                [image_rects EXCEPT ![i].end_row = strip.end_row]
           /\ Cardinality(StoredRects(g.image_rects))
                = Cardinality(StoredRects(image_rects))
           /\ g.image_rects[i].start_row = image_rects[i].start_row
           /\ g.image_rects[i].y_pix = image_rects[i].y_pix
           /\ gr_getrectbottom(g.image_rects[i])
                = strip.y_pix + (strip.end_row - strip.start_row) * strip.ch
           /\ g.drawn = <<>>

\* All the slots are taken, one of them by the stripe of an image of the
\* store, which is extended by two rows.
C27_Witness ==
    /\ Drawing
    /\ StoredRects(image_rects) = 1..MAX_IMAGE_RECTS
    /\ \E i \in StoredRects(image_rects) :
        /\ image_rects[i].image_id \in DOMAIN images
        /\ Appended(StripBelow(image_rects[i], 2)).image_rects[i].end_row
            = image_rects[i].start_row + 3


\* Stripes of an image that no slot holds, in the first row and below the
\* rows of the window.
FreshStripes ==
    {Stripe(FillerImageId(MAX_IMAGE_RECTS + 1), row) :
        row \in {0, MAX_IMAGE_RECTS + 5}}

\* With no slot free and nothing to merge with, gr_append_imagerect draws
\* the rect of slot i, and nothing else, and stores the new rect there.
EvictsSlot(new_rect, i) ==
    LET g == Appended(new_rect)
    IN /\ g.image_rects = [image_rects EXCEPT ![i] = new_rect]
       /\ Len(g.drawn) = 1
       /\ g.drawn[1].rect = image_rects[i]

\* The bottom of the rect of slot i is the smallest of the table (Least), or
\* the largest.
Topmost(i) ==
    \A j \in 1..MAX_IMAGE_RECTS :
        gr_getrectbottom(image_rects[i]) <= gr_getrectbottom(image_rects[j])

Lowest(i) ==
    \A j \in 1..MAX_IMAGE_RECTS :
        gr_getrectbottom(image_rects[i]) >= gr_getrectbottom(image_rects[j])

\* C28 as stated: when no slot is free and no rect can be merged with,
\* gr_append_imagerect draws and evicts the stored rect with the largest
\* bottom and stores the new rect in its slot.
C28_AsStated ==
    StoredRects(image_rects) = 1..MAX_IMAGE_RECTS =>
        \A new_rect \in FreshStripes :
            \E i \in 1..MAX_IMAGE_RECTS : EvictsSlot(new_rect, i) /\ Lowest(i)

\* C28: when no slot is free and no rect can be merged with,
\* gr_append_imagerect draws and evicts the stored rect with the smallest
\* bottom (the first of them in the table) and stores the new rect in its
\* slot.
C28_EvictsTopmost ==
    StoredRects(image_rects) = 1..MAX_IMAGE_RECTS =>
        \A new_rect \in FreshStripes :
            \E i \in 1..MAX_IMAGE_RECTS :
                /\ EvictsSlot(new_rect, i)
                /\ Topmost(i)
                /\ \A j \in 1..(i - 1) : ~Topmost(j)

\* No slot is free, the stripe of an image of the store in the first row
\* has the smallest bottom and is not in the first slot, and it is the one
\* evicted, while other rects are lower.
C28_Witness ==
    /\ StoredRects(image_rects) = 1..MAX_IMAGE_RECTS
    /\ \E i \in 2..MAX_IMAGE_RECTS :
        /\ image_rects[i].image_id \in DOMAIN images
        /\ Topmost(i) /\ ~Lowest(i)
        /\ \A new_rect \in FreshStripes : EvictsSlot(new_rect, i)


\* Whether gr_append_imagerect accepts the rect: it is of an image and has
\* columns and rows.
AcceptedRect(rect) ==
    /\ rect.image_id /= 0
    /\ rect.end_col - rect.start_col > 0
    /\ rect.end_row - rect.start_row > 0

\* The rows of the rect, each as the rect of one row at its place on the
\* screen; none for a free slot or a rect that is not accepted.
UnitRows(rect) ==
    IF ~AcceptedRect(rect) THEN EmptyBag
    ELSE SetToBag({[rect EXCEPT !.start_row = r, !.end_row = r + 1,
                                !.y_pix = rect.y_pix
                                    + (r - rect.start_row) * rect.ch] :
                    r \in rect.start_row..(rect.end_row - 1)})

RECURSIVE RowsOf(_, _)
\* The rows of the first n rects of the sequence, with their multiplicity.
RowsOf(rects, n) ==
    IF n = 0 THEN EmptyBag
    ELSE RowsOf(rects, n - 1) (+) UnitRows(rects[n])

\* The rows that wait in the slots of the table.
PendingRows(rects) == RowsOf(rects, MAX_IMAGE_RECTS)

\* The rows of the rects handed to gr_drawimagerect during the call.
DrawnRows(d) == RowsOf([k \in 1..Len(d) |-> d[k].rect], Len(d))

\* The rects the terminal may append in the current state: the strip of one
\* row below each stored rect, each stored rect once more, stripes of another
\* image, and rects without image, columns or rows.
AppendedRects ==
    {StripBelow(image_rects[i], 1) : i \in StoredRects(image_rects)}
    \cup {image_rects[i] : i \in StoredRects(image_rects)}
    \cup FreshStripes
    \cup {Stripe(0, 0),
          [Stripe(1, 0) EXCEPT !.end_col = 0],
          [Stripe(1, 0) EXCEPT !.end_row = 0]}

\* C29: every row of a rect accepted by gr_append_imagerect is handed to
\* gr_drawimagerect exactly once before gr_finish_drawing returns: a call
\* of gr_append_imagerect leaves each pending row pending or draws it (once),
\* adds the rows of an accepted rect and nothing of a rejected one;
\* gr_finish_drawing draws each pending row once and leaves all slots free;
\* outside of a drawing pass no rect is pending, and never more than
\* MAX_IMAGE_RECTS are.
C29_DrawnExactlyOnce ==
    /\ \A rect \in AppendedRects :
        LET g == Appended(rect)
        IN /\ PendingRows(g.image_rects) (+) DrawnRows(g.drawn)
                = PendingRows(image_rects) (+) UnitRows(rect)
           /\ Cardinality(StoredRects(g.image_rects)) <= MAX_IMAGE_RECTS
    /\ LET g == Call("gr_finish_drawing", <<Now>>)
       IN /\ DrawnRows(g.drawn) = PendingRows(image_rects)
          /\ Len(g.drawn) = Cardinality(StoredRects(image_rects))
          /\ StoredRects(g.image_rects) = {}
    /\ ~Drawing => StoredRects(image_rects) = {}
    /\ Cardinality(StoredRects(image_rects)) <= MAX_IMAGE_RECTS

\* gr_finish_drawing has returned from a pass that left no slot free: it
\* has drawn MAX_IMAGE_RECTS rects, one of them of an image of the terminal's
\* cells, and all slots are free.
C29_Witness ==
    /\ last_call.op = "gr_finish_drawing"
    /\ Len(drawn) = MAX_IMAGE_RECTS
    /\ \E k \in 1..Len(drawn) : drawn[k].rect.image_id \in DrawnImageIds
    /\ StoredRects(image_rects) = {}


\* The images of which a chunk has been rejected with OverSizeLimit.
RejectedOverSize(ims) ==
    {i \in DOMAIN ims : ims[i].uploading_failure = ERROR_OVER_SIZE_LIMIT}

\* Later chunks of image 1, with the image id:
\*   Gi=1,m=1;AAA=  Gi=1,m=0;AAA=  Gi=1,m=0;AAAAAA==  Ga=t,i=1,m=0;AAAAAA==
LaterChunksWithId ==
    {
     <<"G", "i", "=", "1", ",", "m", "=", "1", ";", "A", "A", "A", "=">>,
     <<"G", "i", "=", "1", ",", "m", "=", "0", ";", "A", "A", "A", "=">>,
     <<"G", "i", "=", "1", ",", "m", "=", "0", ";", "A", "A", "A", "A", "A",
       "A", "=", "=">>,
     <<"G", "a", "=", "t", ",", "i", "=", "1", ",", "m", "=", "0", ";", "A",
       "A", "A", "A", "A", "A", "=", "=">>}

\* Later chunks without image id:  Gm=1;AAA=  Gm=0;AAA=  Gm=0;AAAAAA==
LaterChunksWithoutId ==
    {
     <<"G", "m", "=", "1", ";", "A", "A", "A", "=">>,
     <<"G", "m", "=", "0", ";", "A", "A", "A", "=">>,
     <<"G", "m", "=", "0", ";", "A", "A", "A", "A", "A", "A", "=", "=">>}

\* The chunk is rejected in the store g: no data reaches the cache
\* directory, the image is in neither status of success, and the response
\* to a final chunk is the EFBIG error.
ChunkRejected(g, i, buf) ==
    /\ g.files = files
    /\ i \in DOMAIN g.images =>
        /\ g.images[i].disk_size = images[i].disk_size
        /\ g.images[i].status
            \notin {STATUS_UPLOADING_SUCCESS, STATUS_RAM_LOADING_SUCCESS}
    /\ FrameCommand(buf).more = 0 =>
        g.result.response.code = "EFBIG"

\* C30: once a chunk of the direct upload of an image has been rejected with
\* OverSizeLimit, every later chunk for the image is rejected without
\* writing data, the image does not reach UploadingSuccess or
\* RamLoadingSuccess, and the final chunk reports the EFBIG error again.
C30_OverSizeSticky ==
    1 \in RejectedOverSize(images) =>
        \A buf \in LaterChunksWithId \cup LaterChunksWithoutId :
            ChunkRejected(Parsed(buf), 1, buf)


\* C31: in every reachable state an image in the status Uploading has no
\* uploading failure, and an image with an uploading failure is in the
\* status UploadingError.
C31_FailurePairedWithStatus ==
    \A i \in DOMAIN images :
        /\ images[i].status = STATUS_UPLOADING
            => images[i].uploading_failure = 0
        /\ images[i].uploading_failure /= 0
            => images[i].status = STATUS_UPLOADING_ERROR


\* In the table ims every image in the status Uploading has its file open
\* exactly when bytes have been written for it.
SinkOpenIffWritten(ims) ==
    \A i \in DOMAIN ims :
        ims[i].status = STATUS_UPLOADING
            => (ims[i].open_file <=> ims[i].disk_size > 0)

\* C32: while an image is in the status Uploading its open_file is open if
\* and only if disk_size > 0, in every reachable state and after a first
\* chunk without data handled in that state.
C32_SinkOpenIffWritten ==
    /\ SinkOpenIffWritten(images)
    /\ SinkOpenIffWritten(Parsed(FrameUploadEmpty).images)


\* Frames with a malformed or unknown key and i=5, the id before the bad key:
\*   Gi=5,b=1  Gi=5,a  Gi=5,ab=1  Gi=5,s=z  Ga=p,i=5,b=1
BadKeyAfterId ==
    {
     <<"G", "i", "=", "5", ",", "b", "=", "1">>,
     <<"G", "i", "=", "5", ",", "a">>,
     <<"G", "i", "=", "5", ",", "a", "b", "=", "1">>,
     <<"G", "i", "=", "5", ",", "s", "=", "z">>,
     <<"G", "a", "=", "p", ",", "i", "=", "5", ",", "b", "=", "1">>}

\* The same with the id after the bad key:
\*   Gb=1,i=5  Ga,i=5  Gab=1,i=5  Gs=z,i=5  Ga=p,b=1,i=5
BadKeyBeforeId ==
    {
     <<"G", "b", "=", "1", ",", "i", "=", "5">>,
     <<"G", "a", ",", "i", "=", "5">>,
     <<"G", "a", "b", "=", "1", ",", "i", "=", "5">>,
     <<"G", "s", "=", "z", ",", "i", "=", "5">>,
     <<"G", "a", "=", "p", ",", "b", "=", "1", ",", "i", "=", "5">>}

\* The response to the frame is an EINVAL error that carries i=5.
AnsweredEinvalWithId(buf) ==
    LET g == Parsed(buf)
    IN /\ g.result.error
       /\ g.result.response.code = "EINVAL"
       /\ g.result.response.image_id = 5

\* C33: a command with a malformed or unknown key and i=5 in its key list
\* (quiet 0) is answered by an EINVAL frame that carries i=5, whether the id
\* comes before or after the bad key.
C33_ErrorResponseCarriesId ==
    \A buf \in BadKeyAfterId \cup BadKeyBeforeId : AnsweredEinvalWithId(buf)


\* Values of s= and v=: none, small ones, the largest side Imlib2 accepts,
\* the least side whose square overflows int, 2^16 and INT_MAX, and -1.
RawSides == {-1, 0, 1, 4, 5, 16, 17, 32767, 46341, 65536, 2147483647}

\* pix_width * pix_height * 4 exceeds the ceiling for one image in RAM, as
\* numbers.
ExceedsPixelBudget(w, h) ==
    LET p == MulInt(w, h)
    IN /\ ~p.zero /\ ~p.negative
       /\ ~p.fits \/ p.low > config.max_single_image_ram_size \div 4

\* C34: whenever pix_width * pix_height * 4 exceeds
\* graphics_max_single_image_ram_size the budget check of
\* gr_load_raw_pixel_data rejects the load, for every pair of sides and
\* whatever the build makes of an overflowing product.
C34_PixelBudget ==
    \A w \in RawSides, h \in RawSides, overflow \in {"wrap", "wide"} :
        ExceedsPixelBudget(w, h)
            => PixelsOverBudget([Now EXCEPT !.env.overflow = overflow],
                                [pix_width |-> w, pix_height |-> h])


\* Sides of the source rectangle in pixels, and numbers of rows or columns
\* given with the placement.
SrcSides == {1, 2, 3, 7, 100, 3000}
GivenCells == {1, 2, 3, 100}

\* The placement of an image of w x h pixels shown whole, under Contain, with
\* the given columns and rows, after gr_infer_placement_size_maybe with the
\* cell size of the current state.
SizedContain(w, h, cols, rows) ==
    InferredSize(
        TruncatedSrcRect(
            [src_pix_x |-> 0, src_pix_y |-> 0, src_pix_width |-> 0,
             src_pix_height |-> 0, cols |-> cols, rows |-> rows,
             scale_mode |-> SCALE_MODE_CONTAIN],
            [pix_width |-> w, pix_height |-> h]),
        current_cw, current_ch)

\* c is the least number with c * unit >= need.
LeastFitting(c, unit, need) ==
    /\ c * unit >= need
    /\ (c - 1) * unit < need

\* C35: under Contain with rows given and cols 0, the cols set by
\* gr_infer_placement_size_maybe are the least c with
\* c * cw * src_height >= src_width * rows * ch, and with cols given and
\* rows 0 the rows are the least r with
\* r * ch * src_width >= src_height * cols * cw, for all positive source
\* sizes, with the cell size of any state.
C35_ContainSizing ==
    (current_cw > 0 /\ current_ch > 0) =>
        \A w \in SrcSides, h \in SrcSides, n \in GivenCells :
            /\ LeastFitting(SizedContain(w, h, 0, n).cols,
                            current_cw * h, w * n * current_ch)
            /\ LeastFitting(SizedContain(w, h, n, 0).rows,
                            current_ch * w, h * n * current_cw)


\* C36: whenever current_upload_image_id is not 0 it is the id of a stored
\* image whose status is Uploading.
C36_UploadSlotValid ==
    current_upload_image_id /= 0 =>
        /\ current_upload_image_id \in DOMAIN images
        /\ images[current_upload_image_id].status = STATUS_UPLOADING


RECURSIVE SumPlacements(_, _)
\* The number of placements of the images with the ids of the set S.
SumPlacements(ims, S) ==
    IF S = {} THEN 0
    ELSE LET i == CHOOSE i \in S : TRUE
         IN Cardinality(DOMAIN ims[i].placements)
                + SumPlacements(ims, S \ {i})

\* Commands that add, replace and remove placements:
\*   Ga=p,i=2,p=5  Ga=p,i=2,p=6  Ga=T,t=f,i=2,c=1,r=1;L2E=  Ga=d,d=I,i=2
\*   Ga=d,d=i,i=2,p=5
PlacementCommands ==
    {FramePut, FrameFileShow,
     <<"G", "a", "=", "p", ",", "i", "=", "2", ",", "p", "=", "6">>,
     <<"G", "a", "=", "d", ",", "d", "=", "I", ",", "i", "=", "2">>,
     <<"G", "a", "=", "d", ",", "d", "=", "i", ",", "i", "=", "2", ",", "p",
       "=", "5">>}

\* C37: in every reachable state total_placement_count is the number of
\* placements of all stored images together, and it is so again after a put
\* (of a new placement or of one that exists), the replacement of an image
\* and a delete command handled in that state.
C37_PlacementCount ==
    /\ total_placement_count = SumPlacements(images, DOMAIN images)
    /\ \A buf \in PlacementCommands :
        LET g == Parsed(buf)
        IN g.total_placement_count = SumPlacements(g.images, DOMAIN g.images)

\* Image 2 has two placements, one of them placement 5; the put that
\* replaces placement 5 leaves the count at 2 and the deletion of the image
\* takes it to 0.
C37_Witness ==
    /\ 2 \in DOMAIN images
    /\ 5 \in DOMAIN images[2].placements
    /\ total_placement_count = 2
    /\ Cardinality(DOMAIN images[2].placements) = 2
    /\ Parsed(FramePut).total_placement_count = 2
    /\ Parsed(<<"G", "a", "=", "d", ",", "d", "=", "I", ",", "i", "=",
                "2">>).total_placement_count = 0


\* C38: when gr_parse_command returns with graphics_command_result.error
\* set, the response is not an OK frame.
C38_ErrorNotOverwritten ==
    (last_call.op = "gr_parse_command" /\ graphics_command_result.error)
        => graphics_command_result.response.code /= "OK"


\* The images in the status UploadingError.
FailedUploads(ims) ==
    {i \in DOMAIN ims : ims[i].status = STATUS_UPLOADING_ERROR}

\* The record of image i is in the tables after what it was before, not
\* deleted and not made anew: it has kept the status UploadingError, it is
\* not loaded, and its file, if there is one, holds what it held.
StaysFailed(i, ims_before, files_before, ims_after, files_after) ==
    (/\ i \in DOMAIN ims_after
     /\ ims_after[i].global_command_index
            = ims_before[i].global_command_index)
        => /\ ims_after[i].status = STATUS_UPLOADING_ERROR
           /\ ~ims_after[i].original_image
           /\ ims_after[i].uploading_failure
                = ims_before[i].uploading_failure
           /\ i \in DOMAIN files_after
                => /\ i \in DOMAIN files_before
                   /\ files_after[i] = files_before[i]

\* Chunks and puts for image 1 and a put for image 2, with the image id:
\*   Gi=1,m=1;AAA=  Gi=1,m=0;AAA=  Gi=1,m=0;AAAAAA==  Ga=p,i=1,p=8
\*   Ga=p,i=2,p=5
FramesForFailed ==
    {FramePut,
     <<"G", "i", "=", "1", ",", "m", "=", "1", ";", "A", "A", "A", "=">>,
     <<"G", "i", "=", "1", ",", "m", "=", "0", ";", "A", "A", "A", "=">>,
     <<"G", "i", "=", "1", ",", "m", "=", "0", ";", "A", "A", "A", "A", "A",
       "A", "=", "=">>,
     <<"G", "a", "=", "p", ",", "i", "=", "1", ",", "p", "=", "8">>}

\* C39: an image in the status UploadingError stays in it, unloaded and with
\* its file unwritten, through every step of the terminal (commands, drawing,
\* gr_check_limits, unloading) and through chunks and puts that name it,
\* unless the step deletes it or makes it anew.
C39_ErrorAbsorbing ==
    /\ [](\A i \in FailedUploads(images), buf \in FramesForFailed :
            LET g == Parsed(buf)
            IN StaysFailed(i, images, files, g.images, g.files))
    /\ [][\A i \in FailedUploads(images) :
            StaysFailed(i, images, files, images', files')]_vars

\* gr_finish_drawing has drawn the rect of an image in the status
\* UploadingError that has a placement.
C39_Witness ==
    /\ last_call.op = "gr_finish_drawing"
    /\ \E k \in 1..Len(drawn) :
        LET i == drawn[k].rect.image_id
        IN /\ i \in FailedUploads(images)
           /\ images[i].placements /= EmptyMap


\* Frames with a syntax error each, which would change the store if they
\* were dispatched without the faulty key:
\*   Ga=d,d=A,q  Gi=1,m=0,ab=1;AAA=  Ga=p,i=2,p=5,b=1  Ga=d,d=A,q=x
\*   Ga=t,i=3,f=5,s=1,v=1;AAAA  Ga=t,i=3,o=x,s=1,v=1;AAAA
SyntaxErrorFrames ==
    {
     <<"G", "a", "=", "d", ",", "d", "=", "A", ",", "q">>,
     <<"G", "i", "=", "1", ",", "m", "=", "0", ",", "a", "b", "=", "1", ";",
       "A", "A", "A", "=">>,
     <<"G", "a", "=", "p", ",", "i", "=", "2", ",", "p", "=", "5", ",", "b",
       "=", "1">>,
     <<"G", "a", "=", "d", ",", "d", "=", "A", ",", "q", "=", "x">>,
     <<"G", "a", "=", "t", ",", "i", "=", "3", ",", "f", "=", "5", ",", "s",
       "=", "1", ",", "v", "=", "1", ";", "A", "A", "A", "A">>,
     <<"G", "a", "=", "t", ",", "i", "=", "3", ",", "o", "=", "x", ",", "s",
       "=", "1", ",", "v", "=", "1", ";", "A", "A", "A", "A">>}

\* The store g but for graphics_command_result, the command being parsed and
\* global_command_counter.
StoreButResult(g) ==
    [g EXCEPT !.result = ZeroResult, !.cmd = ZeroCommand,
              !.global_command_counter = 0, !.env = OkEnv(0, 0)]

\* gr_parse_command has set the error flag for the frame and has left the
\* images with their placements, the cached files, the sizes and the count
\* of placements, the slot of the direct upload, image_rects and the rest of
\* the store as they were.
NotDispatched(buf) ==
    LET g == Parsed(buf)
    IN /\ g.result.error
       /\ StoreButResult(g) = StoreButResult(Now)

\* C40 as stated: a frame with a syntax error changes nothing but
\* graphics_command_result.
C40_AsStated ==
    \A buf \in SyntaxErrorFrames :
        /\ NotDispatched(buf)
        /\ Parsed(buf).global_command_counter = global_command_counter

\* C40: a frame with a syntax error (key without value, key longer than one
\* byte, unknown key, non-numeric value, unsupported format or compression)
\* is not dispatched: the images, the placements, the sizes, the count of
\* placements and the slot of the direct upload are after gr_parse_command
\* what they were before it; graphics_command_result changes and
\* global_command_counter is one more.
C40_NotDispatched ==
    \A buf \in SyntaxErrorFrames :
        /\ NotDispatched(buf)
        /\ Parsed(buf).global_command_counter = global_command_counter + 1

\* A direct upload is in progress and an image has a placement when the
\* frames with a syntax error arrive; those with an image id are answered
\* with EINVAL.
C40_Witness ==
    /\ current_upload_image_id /= 0
    /\ \E i \in DOMAIN images : images[i].placements /= EmptyMap
    /\ \A buf \in SyntaxErrorFrames :
        /\ Parsed(buf).result.error
        /\ Parsed(buf).cmd.image_id /= 0
            => Parsed(buf).result.response.code = "EINVAL"

====
